---- MODULE Spec2Model ----
(***************************************************************************)
(* A model of the ioBroker open-meteo-weather adapter (src/src/main.ts):   *)
(* the startup handler onReady with its reconciliation pass                *)
(* cleanupDeletedLocations, the sync cycle updateData with its overlap     *)
(* guard isUpdating, the synchronizer (processWeatherData,                 *)
(* processForecastHoursData, processAirQualityData) and the two upsert     *)
(* helpers createCustomState / extendOrCreateState with the object cache   *)
(* createdObjects.                                                         *)
(*                                                                         *)
(* Every await of the code is a suspension point.  A process position     *)
(* (pc) names the call that is awaited; an action is the completion of     *)
(* that call (it returns or throws) together with the synchronous code     *)
(* that runs up to the next await.                                         *)
(***************************************************************************)
EXTENDS Integers, Sequences, FiniteSets, TLC

(***************************************************************************)
(* Bounds of the model.                                                    *)
(***************************************************************************)
\* timer ticks that fire after setInterval
MaxTicks == 2
\* concurrent invocations of updateData the model can hold
MaxSlots == 2
\* store / fetch calls that throw in one run
MaxFaults == 2
\* distinct readings the fetch collaborator can deliver
MaxReading == 2

(***************************************************************************)
(* Strings.  TLC strings are atomic; prefix and suffix tests are decided   *)
(* by concatenation over the finite set of affixes that occur in ids.      *)
(***************************************************************************)
\* largest day or hour index an id of the model carries
MaxIndex == 24

Digits == 0..MaxIndex

Affixes ==
    {""} \cup {ToString(n) : n \in Digits}
         \cup {"ly", "_quality", "light_duration", "birch_", "grass_", "_text"}

StartsWith(s, p) == \E a \in Affixes : p \o a = s

EndsWith(s, p) == \E a \in Affixes : a \o p = s

\* String.prototype.includes on a dotted id, for a pattern given as segments:
\* the first pattern segment may match the end of an id segment, the last one
\* the beginning of an id segment, the inner ones match whole segments.  An
\* empty first or last pattern segment (a pattern that begins or ends with
\* a dot) matches the end or the beginning of any segment.
Includes(parts, pat) ==
    \E off \in 0..(Len(parts) - Len(pat)) :
        \A j \in 1..Len(pat) :
            LET seg == parts[off + j]
            IN  IF Len(pat) = 1 THEN \E a \in Affixes, b \in Affixes : a \o pat[j] \o b = seg
                ELSE IF pat[j] = "" /\ j \in {1, Len(pat)} THEN TRUE
                ELSE IF j = 1 THEN EndsWith(seg, pat[j])
                ELSE IF j = Len(pat) THEN StartsWith(seg, pat[j])
                ELSE seg = pat[j]

\* objId.match(/\.<word>(\d+)/): the first segment after the first one that
\* is <word> followed by digits; -1 when there is no match.
MatchNum(parts, word) ==
    LET hits == {i \in 2..Len(parts) : \E n \in Digits : parts[i] = word \o ToString(n)}
    IN  IF hits = {} THEN -1
        ELSE LET i == CHOOSE h \in hits : \A g \in hits : h <= g
             IN  CHOOSE n \in Digits : parts[i] = word \o ToString(n)

(***************************************************************************)
(* Location names and folder slugs (main.ts:166, main.ts:256).             *)
(***************************************************************************)
AlNum == {"A", "B", "C", "x", "1"}

\* loc.name.replace(/[^a-zA-Z0-9]/g, '_') on a name given as its characters
RECURSIVE Slug(_)
Slug(name) ==
    IF name = <<>> THEN ""
    ELSE (IF Head(name) \in AlNum THEN Head(name) ELSE "_") \o Slug(Tail(name))

(***************************************************************************)
(* Values of data points: a JavaScript value with its typeof.              *)
(***************************************************************************)
Num(n) == [t |-> "number", n |-> n, s |-> ""]

Str(s) == [t |-> "string", n |-> 0, s |-> s]

Undef == [t |-> "undefined", n |-> 0, s |-> ""]

\* one key of a snapshot object with its value
KV(k, v) == [k |-> k, v |-> v]

\* obj[key] for an object given as its keys in insertion order
Lookup(kvs, key) ==
    IF \E i \in 1..Len(kvs) : kvs[i].k = key
    THEN kvs[CHOOSE i \in 1..Len(kvs) : kvs[i].k = key].v
    ELSE Undef

\* the adapter namespace every object id starts with
Namespace == <<"open-meteo-weather", "0">>

FullId(id) == Namespace \o id

\* the timestamp marker data point
LastUpdateId == <<"info", "lastUpdate">>

(***************************************************************************)
(* Derived metrics (main.ts:61-114).                                       *)
(***************************************************************************)
\* the index with the quotient truncated instead of rounded
WindIndexTruncated(deg) == (deg \div 45) % 8

\* Math.round(deg / 45) % 8 for a whole number of degrees >= 0
WindIndex(deg) == ((2 * deg + 45) \div 90) % 8

DefaultDirs == <<"N", "NO", "O", "SO", "S", "SW", "W", "NW">>

\* weatherTranslations[lang].dirs (lib/words): the rose of the language; the
\* German rose is the one the code falls back to
TranslatedDirs(lang) ==
    IF lang = "en" THEN <<"N", "NE", "E", "SE", "S", "SW", "W", "NW">> ELSE DefaultDirs

\* weatherTranslations[this.systemLang] || weatherTranslations.de
\* (main.ts:131), as the language whose table is cached
weatherTranslations(lang) == IF lang \in {"de", "en"} THEN lang ELSE "de"

\* t is this.cachedTranslations: "null", or the language whose table is cached
getWindDirection(deg, t) == TranslatedDirs(t)[WindIndex(deg) + 1]

WIND_DIRECTION_FILES ==
    <<"n.png", "no.png", "o.png", "so.png", "s.png", "sw.png", "w.png", "nw.png">>

getWindDirectionIcon(deg) == "wind_direction_icons/" \o WIND_DIRECTION_FILES[WindIndex(deg) + 1]

\* the comparison with <= for <
GustBelowInclusive(gusts, limit, imperial) ==
    IF imperial THEN gusts * 160934 <= limit * 100000 ELSE gusts <= limit

\* gusts < limit / factor, with factor 1.60934 as 160934 / 100000
GustBelow(gusts, limit, imperial) ==
    IF imperial THEN gusts * 160934 < limit * 100000 ELSE gusts < limit

getWindGustIcon(gusts, imperial) ==
    IF GustBelow(gusts, 39, imperial) THEN "wind_icons/z.png"
    ELSE IF GustBelow(gusts, 50, imperial) THEN "wind_icons/0.png"
    ELSE IF GustBelow(gusts, 62, imperial) THEN "wind_icons/1.png"
    ELSE IF GustBelow(gusts, 75, imperial) THEN "wind_icons/2.png"
    ELSE IF GustBelow(gusts, 89, imperial) THEN "wind_icons/3.png"
    ELSE "wind_icons/4.png"

\* The Magnus formula in tenths of a degree, tabulated for the temperatures
\* the model's snapshots carry (relative humidity 50 %); 0 elsewhere.
calculateDewPoint(temp, humidity, imperial) ==
    CASE humidity = 50 /\ temp = 20 -> IF imperial THEN 43 ELSE 93
      [] humidity = 50 /\ temp = 21 -> IF imperial THEN 53 ELSE 102
      [] humidity = 50 /\ temp = 22 -> IF imperial THEN 62 ELSE 111
      [] humidity = 50 /\ temp = 23 -> IF imperial THEN 71 ELSE 120
      [] OTHER -> 0

(***************************************************************************)
(* The synchronizer (main.ts:306-627) as the sequence of upsert calls it   *)
(* makes for one snapshot section.  Each call is one invocation of         *)
(* extendOrCreateState ("extend") or createCustomState ("custom").         *)
(***************************************************************************)
Ext(id, v) == [fn |-> "extend", id |-> id, val |-> v]

Cust(id, v) == [fn |-> "custom", id |-> id, val |-> v]

\* the TypeError of a property read on this.cachedTranslations while it is
\* null (main.ts:14), thrown in place of the upsert that needs the property
Throw == [fn |-> "throw", id |-> <<>>, val |-> Undef]

RECURSIVE Concat(_)
Concat(ss) == IF ss = <<>> THEN <<>> ELSE Head(ss) \o Concat(Tail(ss))

\* `${val}` in a template string
ValText(v) ==
    CASE v.t = "number" -> ToString(v.n)
      [] v.t = "string" -> v.s
      [] OTHER -> "undefined"

\* the weather codes the translation table knows
KnownCodes == {0, 1, 2, 3}

\* t.codes[val] || '?'
WeatherText(v) ==
    IF v.t = "number" /\ v.n \in KnownCodes THEN "code" \o ToString(v.n) ELSE "?"

\* toLocaleString / toLocaleDateString / toLocaleTimeString of a date string
Localized(kind, v) == Str(kind \o ":" \o v.s)

\* parseFloat((val / 3600).toFixed(2)), in hundredths of an hour
SunshineHours(v) == Num((2 * v.n + 36) \div 72)

\* the companion points of a wind-direction field (main.ts:346-361)
WindDirOps(root, v, t) ==
    IF v.t # "number" THEN <<>>
    ELSE IF t = "null" THEN << Throw >>
    ELSE << Cust(root \o <<"wind_direction_text">>, Str(getWindDirection(v.n, t))),
            Cust(root \o <<"wind_direction_icon">>, Str(getWindDirectionIcon(v.n))) >>

\* the companion point of a wind-gust field (main.ts:362-370)
WindGustOps(root, v, imperial) ==
    IF v.t = "number"
    THEN << Cust(root \o <<"wind_gust_icon">>, Str(getWindGustIcon(v.n, imperial))) >>
    ELSE <<>>

\* the companion points of weather_code (main.ts:336-345)
WeatherCodeOps(root, v, night, t) ==
    IF t = "null" THEN << Throw >>
    ELSE << Cust(root \o <<"weather_text">>, Str(WeatherText(v))),
            Cust(root \o <<"icon_url">>,
                 Str("weather_icons/" \o ValText(v) \o (IF night THEN "n" ELSE "")
                     \o ".png")) >>

\* one key of data.current (main.ts:322-371)
CurrentKeyOps(root, kv, isDay, imperial, t) ==
    LET val == IF kv.k = "time" /\ kv.v.t = "string" THEN Localized("datetime", kv.v) ELSE kv.v
    IN  << Ext(root \o <<kv.k>>, val) >>
        \o (IF kv.k = "weather_code"
            THEN WeatherCodeOps(root, val, isDay # Num(1), t) ELSE <<>>)
        \o (IF kv.k = "wind_direction_10m" THEN WindDirOps(root, val, t) ELSE <<>>)
        \o (IF kv.k = "wind_gusts_10m" THEN WindGustOps(root, val, imperial) ELSE <<>>)

\* the buckets with their lower bounds exclusive
MoonPhaseKeyExclusive(p) ==
    IF p > 3 /\ p < 22 THEN "waxing_crescent"
    ELSE IF p > 22 /\ p < 28 THEN "first_quarter"
    ELSE IF p > 28 /\ p < 47 THEN "waxing_gibbous"
    ELSE IF p > 47 /\ p < 53 THEN "full_moon"
    ELSE IF p > 53 /\ p < 72 THEN "waning_gibbous"
    ELSE IF p > 72 /\ p < 78 THEN "last_quarter"
    ELSE IF p > 78 /\ p < 97 THEN "waning_crescent"
    ELSE "new_moon"

\* the moon phase bucket of a phase given in hundredths (main.ts:403-419)
MoonPhaseKey(p) ==
    IF p >= 3 /\ p < 22 THEN "waxing_crescent"
    ELSE IF p >= 22 /\ p < 28 THEN "first_quarter"
    ELSE IF p >= 28 /\ p < 47 THEN "waxing_gibbous"
    ELSE IF p >= 47 /\ p < 53 THEN "full_moon"
    ELSE IF p >= 53 /\ p < 72 THEN "waning_gibbous"
    ELSE IF p >= 72 /\ p < 78 THEN "last_quarter"
    ELSE IF p >= 78 /\ p < 97 THEN "waning_crescent"
    ELSE "new_moon"

MOON_PHASE_ICONS ==
    [new_moon |-> "nm.png", waxing_crescent |-> "zsm.png", first_quarter |-> "ev.png",
     waxing_gibbous |-> "zdm.png", full_moon |-> "vm.png", waning_gibbous |-> "adm.png",
     last_quarter |-> "lv.png", waning_crescent |-> "asm.png"]

getMoonPhaseIcon(phaseKey) ==
    "moon_phases/" \o (IF phaseKey \in DOMAIN MOON_PHASE_ICONS
                        THEN MOON_PHASE_ICONS[phaseKey] ELSE "nm.png")

\* the lunar points of one forecast day (main.ts:378-442); moon is what the
\* astronomical collaborator returns for the day
MoonOps(dayPath, moon, t) ==
    << Cust(dayPath \o <<"moonrise">>, Str(IF moon.rise THEN "rise" ELSE "--:--")),
       Cust(dayPath \o <<"moonset">>, Str(IF moon.set THEN "set" ELSE "--:--")) >>
    \o (IF t = "null" THEN << Throw >>
        ELSE << Cust(dayPath \o <<"moon_phase_text">>, Str(MoonPhaseKey(moon.phase))),
                Cust(dayPath \o <<"moon_phase_val">>, Num(moon.phase)),
                Cust(dayPath \o <<"moon_phase_icon">>,
                     Str(getMoonPhaseIcon(MoonPhaseKey(moon.phase)))),
                Cust(dayPath \o <<"name_day">>, Str("weekday")) >>)

\* data.<section>[key][i] for a column given as its values
Cell(col, i) == IF i + 1 \in DOMAIN col.vs THEN col.vs[i + 1] ELSE Undef

\* one key of one forecast day (main.ts:444-507)
DailyKeyOps(dayPath, col, i, imperial, t) ==
    LET raw == Cell(col, i)
        val == IF col.k = "time" /\ raw.t = "string" THEN Localized("date", raw)
               ELSE IF col.k = "sunshine_duration" /\ raw.t = "number" THEN SunshineHours(raw)
               ELSE IF col.k \in {"sunrise", "sunset"} /\ raw.t = "string"
                    THEN Localized("time", raw)
               ELSE raw
    IN  << Ext(dayPath \o <<col.k>>, val) >>
        \o (IF col.k = "wind_direction_10m_dominant" THEN WindDirOps(dayPath, val, t) ELSE <<>>)
        \o (IF col.k = "wind_gusts_10m_max" THEN WindGustOps(dayPath, val, imperial) ELSE <<>>)
        \o (IF col.k = "weather_code" THEN WeatherCodeOps(dayPath, val, FALSE, t) ELSE <<>>)

\* data.<section>.time?.length || 0
TimeLength(cols) ==
    IF \E c \in 1..Len(cols) : cols[c].k = "time"
    THEN Len(cols[CHOOSE c \in 1..Len(cols) : cols[c].k = "time"].vs)
    ELSE 0

\* processWeatherData with the dew point emitted whatever its inputs are, as
\* the sentinel 0 when one of them is no number
processWeatherDataDewAlways(data, locationPath, imperial, t) ==
    LET root == <<locationPath, "weather", "current">>
        temp == Lookup(data.current, "temperature_2m")
        hum  == Lookup(data.current, "relative_humidity_2m")
        dew  == IF temp.t = "number" /\ hum.t = "number"
                THEN << Ext(root \o <<"dew_point_2m">>,
                            Num(calculateDewPoint(temp.n, hum.n, imperial))) >>
                ELSE << Ext(root \o <<"dew_point_2m">>, Num(0)) >>
        cur  == Concat([i \in 1..Len(data.current) |->
                          CurrentKeyOps(root, data.current[i],
                                        Lookup(data.current, "is_day"), imperial, t)])
        day(i) == LET dayPath == <<locationPath, "weather", "forecast", "day" \o ToString(i)>>
                  IN  MoonOps(dayPath, data.moon[i + 1], t)
                      \o Concat([c \in 1..Len(data.daily) |->
                                   DailyKeyOps(dayPath, data.daily[c], i, imperial, t)])
    IN  dew \o cur \o Concat([j \in 1..TimeLength(data.daily) |-> day(j - 1)])

\* processWeatherData (main.ts:307-510)
processWeatherData(data, locationPath, imperial, t) ==
    LET root == <<locationPath, "weather", "current">>
        temp == Lookup(data.current, "temperature_2m")
        hum  == Lookup(data.current, "relative_humidity_2m")
        dew  == IF temp.t = "number" /\ hum.t = "number"
                THEN << Ext(root \o <<"dew_point_2m">>,
                            Num(calculateDewPoint(temp.n, hum.n, imperial))) >>
                ELSE <<>>
        cur  == Concat([i \in 1..Len(data.current) |->
                          CurrentKeyOps(root, data.current[i],
                                        Lookup(data.current, "is_day"), imperial, t)])
        day(i) == LET dayPath == <<locationPath, "weather", "forecast", "day" \o ToString(i)>>
                  IN  MoonOps(dayPath, data.moon[i + 1], t)
                      \o Concat([c \in 1..Len(data.daily) |->
                                   DailyKeyOps(dayPath, data.daily[c], i, imperial, t)])
    IN  dew \o cur \o Concat([j \in 1..TimeLength(data.daily) |-> day(j - 1)])

\* one key of one forecast hour (main.ts:523-588)
HourlyKeyOps(hourPath, col, i, isDay, imperial, t) ==
    LET raw == Cell(col, i)
        isTime == col.k = "time" /\ raw.t = "string"
        val == IF isTime THEN Localized("time", raw)
               ELSE IF col.k = "sunshine_duration" /\ raw.t = "number" THEN SunshineHours(raw)
               ELSE raw
    IN  (IF isTime THEN << Ext(hourPath \o <<"date">>, Localized("date", raw)) >> ELSE <<>>)
        \o << Ext(hourPath \o <<col.k>>, val) >>
        \o (IF col.k = "weather_code"
            THEN WeatherCodeOps(hourPath, val, isDay # Num(1), t) ELSE <<>>)
        \o (IF col.k = "wind_direction_10m" THEN WindDirOps(hourPath, val, t) ELSE <<>>)
        \o (IF col.k = "wind_gusts_10m" THEN WindGustOps(hourPath, val, imperial) ELSE <<>>)

\* parseInt(config.forecastHours) || 24 (main.ts:171, main.ts:516)
HoursLimit(cfg) == IF cfg.forecastHours # 0 THEN cfg.forecastHours ELSE 24

\* processForecastHoursData (main.ts:513-593)
processForecastHoursData(data, locationPath, cfg, t) ==
    LET hasIsDay == \E c \in 1..Len(data) : data[c].k = "is_day"
        hour(i) ==
            IF i < HoursLimit(cfg)
            THEN LET hourPath == <<locationPath, "weather", "forecast", "hourly",
                                   "next_hours", "hour" \o ToString(i)>>
                     isDay == IF hasIsDay
                              THEN Cell(data[CHOOSE c \in 1..Len(data) : data[c].k = "is_day"], i)
                              ELSE Num(1)
                 IN  Concat([c \in 1..Len(data) |->
                               HourlyKeyOps(hourPath, data[c], i, isDay, cfg.isImperial, t)])
            ELSE <<>>
    IN  Concat([j \in 1..TimeLength(data) |-> hour(j - 1)])

\* key.includes('pollen')
IsPollenKey(key) == \E a \in Affixes, b \in Affixes : a \o "pollen" \o b = key

\* the pollen text of the synchronizer (main.ts:614-622): > 2, > 1, > 0
PollenText(v) ==
    IF v.t = "number" /\ v.n > 2 THEN "high"
    ELSE IF v.t = "number" /\ v.n > 1 THEN "moderate"
    ELSE IF v.t = "number" /\ v.n > 0 THEN "low"
    ELSE "none"

\* processAirQualityData (main.ts:596-627)
processAirQualityData(data, locationPath, t) ==
    LET root == <<locationPath, "air", "current">>
        key(kv) ==
            LET val == IF kv.k = "time" /\ kv.v.t = "string"
                       THEN Localized("datetime", kv.v) ELSE kv.v
            IN  << Ext(root \o <<kv.k>>, val) >>
                \o (IF ~IsPollenKey(kv.k) THEN <<>>
                    ELSE IF t = "null" THEN << Throw >>
                    ELSE << Cust(root \o <<kv.k \o "_text">>, Str(PollenText(kv.v))) >>)
    IN  Concat([i \in 1..Len(data.current) |-> key(data.current[i])])

\* the sections of a location processed in the order air, hourly, weather
LocationOpsAirFirst(data, folderName, cfg, t) ==
    (IF data.air.present THEN processAirQualityData(data.air, folderName, t) ELSE <<>>)
    \o (IF data.hourly.present
        THEN processForecastHoursData(data.hourly.hourly, folderName, cfg, t) ELSE <<>>)
    \o (IF data.weather.present
        THEN processWeatherData(data.weather, folderName, cfg.isImperial, t) ELSE <<>>)

\* the upsert calls of one location for one fetch result (main.ts:273-284)
LocationOps(data, folderName, cfg, t) ==
    (IF data.weather.present
     THEN processWeatherData(data.weather, folderName, cfg.isImperial, t) ELSE <<>>)
    \o (IF data.hourly.present
        THEN processForecastHoursData(data.hourly.hourly, folderName, cfg, t) ELSE <<>>)
    \o (IF data.air.present THEN processAirQualityData(data.air, folderName, t) ELSE <<>>)

(***************************************************************************)
(* The upsert helpers (main.ts:630-689) as the store calls one invocation  *)
(* awaits, in order, given the object cache at the time of the call.       *)
(***************************************************************************)
createCustomState(id, cache) ==
    IF id \notin cache THEN <<"define", "write">> ELSE <<"write">>

\* a helper that does not consult the cache
extendOrCreateStateAlways(id, cache) == <<"define", "write">>

\* a helper that writes the value inside the cache test
extendOrCreateStateWriteOnce(id, cache) ==
    IF id \notin cache THEN <<"define", "write">> ELSE <<>>

extendOrCreateState(id, cache) ==
    IF id \notin cache THEN <<"define", "write">> ELSE <<"write">>

UpsertAwaits(op, cache) ==
    IF op.fn = "custom" THEN createCustomState(op.id, cache)
    ELSE extendOrCreateState(op.id, cache)

\* the cache-less helpers of the first version of the adapter
\* (unnamed/part_000:194-222): define, then write, on every call
createCustomStateNoCache(id) == <<"define", "write">>

extendOrCreateStateNoCache(id) == <<"define", "write">>

UpsertAwaitsNoCache(op) ==
    IF op.fn = "custom" THEN createCustomStateNoCache(op.id)
    ELSE extendOrCreateStateNoCache(op.id)

(***************************************************************************)
(* Configuration (read-only to the adapter) and the reconciliation rules.  *)
(* forecastDays / forecastHours = 0 stand for an unset (falsy) value.      *)
(***************************************************************************)
\* locationsKind tells what config.locations is: "list" (an array, whose
\* elements locations holds), "missing" (undefined or null) or "other" (a
\* truthy value that is no array).
Config(locs, days, hours, hoursOn, airOn) ==
    [locations |-> locs, forecastDays |-> days, forecastHours |-> hours,
     forecastHoursEnabled |-> hoursOn, airQualityEnabled |-> airOn, isImperial |-> FALSE,
     locationsKind |-> "list"]

\* configuration c with a config.locations that is no array
NoList(c, kind) == [c EXCEPT !.locations = <<>>, !.locationsKind = kind]

\* new Set(locations.map(loc => slug(loc.name))) (main.ts:166)
validFolders(c) == {Slug(c.locations[i]) : i \in 1..Len(c.locations)}

\* parseInt(config.forecastDays) || 1 (main.ts:168)
ForecastDaysLimit(c) == IF c.forecastDays # 0 THEN c.forecastDays ELSE 1

\* rule 1 testing the instance segment instead of the folder segment
RuleLocationInstance(parts, c) == parts[2] \notin validFolders(c)

\* rule 1 (main.ts:182): the folder is not a configured location
RuleLocation(parts, c) == parts[3] \notin validFolders(c)

\* rule 2 without the test of the flag
RuleAirAlways(parts, c) == Includes(parts, <<parts[3], "air">>)

\* rule 2 (main.ts:190)
RuleAir(parts, c) == ~c.airQualityEnabled /\ Includes(parts, <<parts[3], "air">>)

\* rule 3 (main.ts:197)
RuleHourly(parts, c) ==
    ~c.forecastHoursEnabled /\ Includes(parts, <<parts[3], "weather", "forecast", "hourly">>)

\* rule 5 with > for >=
RuleDayStrict(parts, c) ==
    /\ Includes(parts, <<parts[3], "weather", "forecast", "day">>)
    /\ ~Includes(parts, <<"", "hourly", "">>)
    /\ MatchNum(parts, "day") # -1
    /\ MatchNum(parts, "day") > ForecastDaysLimit(c)

\* rule 5 (main.ts:206-216)
RuleDay(parts, c) ==
    /\ Includes(parts, <<parts[3], "weather", "forecast", "day">>)
    /\ ~Includes(parts, <<"", "hourly", "">>)
    /\ MatchNum(parts, "day") # -1
    /\ MatchNum(parts, "day") >= ForecastDaysLimit(c)

\* rule 6 with > for >=
RuleHourStrict(parts, c) ==
    /\ c.forecastHoursEnabled
    /\ Includes(parts, <<"", "hourly", "next_hours", "hour">>)
    /\ MatchNum(parts, "hour") # -1
    /\ MatchNum(parts, "hour") > HoursLimit(c)

\* rule 6 (main.ts:219-229)
RuleHour(parts, c) ==
    /\ c.forecastHoursEnabled
    /\ Includes(parts, <<"", "hourly", "next_hours", "hour">>)
    /\ MatchNum(parts, "hour") # -1
    /\ MatchNum(parts, "hour") >= HoursLimit(c)

\* whether the loop body of cleanupDeletedLocations deletes objId (main.ts:177-230)
CleanupDeletes(parts, c) ==
    /\ Len(parts) > 2
    /\ \/ RuleLocation(parts, c)
       \/ RuleAir(parts, c)
       \/ RuleHourly(parts, c)
       \/ RuleDay(parts, c)
       \/ RuleHour(parts, c)

\* the index of the next enumerated id, from index from on, that the loop
\* deletes; 0 when the loop runs to its end
NextDelete(all, from, c) ==
    LET hits == {i \in from..Len(all) : CleanupDeletes(all[i], c)}
    IN  IF hits = {} THEN 0 ELSE CHOOSE i \in hits : \A j \in hits : i <= j

IsPrefix(p, q) == Len(p) <= Len(q) /\ SubSeq(q, 1, Len(p)) = p

\* delObjectAsync(objId, {recursive: true}) on a set of ids
DelRecursive(ids, objId) == {o \in ids : ~IsPrefix(objId, o)}

(***************************************************************************)
(* The fetch collaborator fetchAllWeatherData.  It is called with the      *)
(* parameters of main.ts:259-269 and answers with one entry per requested  *)
(* forecast day and hour; the hourly and air sections are present only if  *)
(* their flag is set.  fd is what the remote service delivers: the fields  *)
(* of each section, and how many distinct readings.                        *)
(***************************************************************************)
\* config.forecastDays || 7 (main.ts:263)
RequestDays(c) == IF c.forecastDays # 0 THEN c.forecastDays ELSE 7

\* config.forecastHours || 1 (main.ts:264)
RequestHours(c) == IF c.forecastHours # 0 THEN c.forecastHours ELSE 1

\* the value the service delivers for a field when its reading is r
FieldValue(k, r) ==
    CASE k = "time" -> Str("t")
      [] k = "temperature_2m" -> Num(19 + r)
      [] k = "relative_humidity_2m" -> Num(50)
      [] OTHER -> Num(r)

Row(keys, r) == [i \in 1..Len(keys) |-> KV(keys[i], FieldValue(keys[i], r))]

Columns(keys, n, r) ==
    [i \in 1..Len(keys) |-> [k |-> keys[i], vs |-> [j \in 1..n |-> FieldValue(keys[i], r)]]]

\* bad lists the fields the service delivers malformed, each with the value
\* delivered in place of a well-formed one; phase is the lunar phase of the
\* forecast days, in hundredths, as the astronomical collaborator computes it
Feed(current, daily, hourly, air, readings) ==
    [current |-> current, daily |-> daily, hourly |-> hourly, air |-> air,
     readings |-> readings, bad |-> <<>>, phase |-> 50]

\* the service fd on days whose lunar phase is p
Moonlit(fd, p) == [fd EXCEPT !.phase = p]

\* the service fd with the fields of bad delivered malformed
Malformed(fd, bad) == [fd EXCEPT !.bad = bad]

\* the service fd with value v delivered for field k
Delivering(fd, k, v) == [fd EXCEPT !.bad = <<KV(k, v)>>]

IsBad(bad, k) == \E j \in 1..Len(bad) : bad[j].k = k

\* a section given as keys with values, with the malformed fields as delivered
Spoil(kvs, bad) ==
    [i \in 1..Len(kvs) |->
        IF IsBad(bad, kvs[i].k) THEN KV(kvs[i].k, Lookup(bad, kvs[i].k)) ELSE kvs[i]]

\* a section given as columns, with the malformed fields as delivered
SpoilColumns(cols, bad) ==
    [i \in 1..Len(cols) |->
        IF IsBad(bad, cols[i].k)
        THEN [k |-> cols[i].k, vs |-> [j \in 1..Len(cols[i].vs) |-> Lookup(bad, cols[i].k)]]
        ELSE cols[i]]

\* the result of one fetch: reading r, with the weather section iff w
Snapshot(r, w, fd, c) ==
    LET days == IF fd.daily = <<>> THEN 0 ELSE RequestDays(c)
    IN  [weather |->
            [present |-> w,
             current |-> Spoil(Row(fd.current, r), fd.bad),
             daily   |-> SpoilColumns(Columns(fd.daily, days, r), fd.bad),
             moon    |-> [i \in 1..days |-> [phase |-> fd.phase, rise |-> TRUE, set |-> FALSE]]],
         hourly |->
            [present |-> c.forecastHoursEnabled,
             hourly  |-> SpoilColumns(Columns(fd.hourly, RequestHours(c), r), fd.bad)],
         air |->
            [present |-> c.airQualityEnabled,
             current |-> Spoil(Row(fd.air, r), fd.bad)]]

(***************************************************************************)
(* State.                                                                  *)
(***************************************************************************)
VARIABLES
    cfg,            \* this.config
    systemConfig,   \* the object system.config: its common.language
    cachedTranslations, \* main.ts:14: "null", or the language whose table is cached
    feed,           \* what the remote weather service delivers
    objects,        \* the store: ids that have an object (metadata)
    states,         \* the store: id -> value of the ids that have a state
    createdObjects, \* the object cache (main.ts:19)
    isUpdating,     \* the overlap guard (main.ts:22)
    updateInterval, \* the recurring timer: "unset", "set", "cleared"
    rpc,            \* onReady: the call it awaits
    allObjects,     \* cleanupDeletedLocations: the enumerated ids, in store order
    ci,             \* cleanupDeletedLocations: index of the id being deleted
    cyc,            \* the invocations of updateData that are in flight
    calls,          \* history: invocations of updateData so far
    cycles,         \* history: invocations that acquired the guard
    ticks,          \* history: timer ticks so far
    faults,         \* history: calls that have thrown
    log,            \* history: the fetch and store calls issued, in order
    ncWrites,       \* history: value writes of the cache-less synchronizer
    defIssued,      \* history: id -> metadata-definition calls issued
    defDone,        \* history: id -> metadata-definition calls that returned
    unloaded        \* history: the host has called onUnload

vars == <<cfg, systemConfig, cachedTranslations, feed, objects, states, createdObjects,
          isUpdating, updateInterval, rpc, allObjects, ci, cyc, calls, cycles, ticks, faults,
          log, ncWrites, defIssued, defDone, unloaded>>

\* one more call counted for id
Bump(f, id) == IF id \in DOMAIN f THEN [f EXCEPT ![id] = @ + 1] ELSE (id :> 1) @@ f

\* the calls counted for id
Count(f, id) == IF id \in DOMAIN f THEN f[id] ELSE 0

Slots == 1..MaxSlots

\* an invocation slot that holds no invocation of updateData
IdleSlot == [pc |-> "idle", li |-> 0, ops |-> <<>>, cur |-> Ext(<<>>, Undef), aw |-> <<>>, n |-> 0]

Call(c, op, id, val) == [c |-> c, op |-> op, id |-> id, val |-> val]

FolderOf(li) == Slug(cfg.locations[li])

\* the call an in-flight invocation awaits
PendingCall(sl) ==
    CASE sl.pc = "fetch" -> Call(sl.n, "fetch", <<FolderOf(sl.li)>>, Undef)
      [] sl.pc = "call" /\ Head(sl.aw) = "define" -> Call(sl.n, "define", sl.cur.id, Undef)
      [] sl.pc = "call" /\ Head(sl.aw) = "write" -> Call(sl.n, "write", sl.cur.id, sl.cur.val)
      [] sl.pc = "stamp" -> Call(sl.n, "write", LastUpdateId, Str("time" \o ToString(sl.n)))

\* The synchronous code of updateData that runs once an awaited store call of
\* the current upsert has returned, up to the next await (main.ts:255-297):
\* the next store call of the upsert, else the next upsert of the location,
\* else the fetch of the next location, else the timestamp write; or none of
\* them when the code throws on the way (pc "thrown").  nc
\* collects the value writes the cache-less helpers issue for the upserts
\* begun on the way, whose define is a no-op on an id that is defined.
RECURSIVE Settle(_, _, _)
Settle(sl, cache, nc) ==
    IF sl.aw # <<>> THEN [sl |-> sl, nc |-> nc]
    ELSE IF sl.ops = <<>>
    THEN IF sl.li < Len(cfg.locations)
         THEN [sl |-> [sl EXCEPT !.pc = "fetch", !.li = sl.li + 1], nc |-> nc]
         ELSE [sl |-> [sl EXCEPT !.pc = "stamp"], nc |-> nc]
    ELSE IF Head(sl.ops).fn = "throw" THEN [sl |-> [sl EXCEPT !.pc = "thrown"], nc |-> nc]
    ELSE LET op == Head(sl.ops)
             aw == UpsertAwaits(op, cache)
             hit == aw = <<>> \/ Head(aw) # "define"
         IN  Settle([sl EXCEPT !.pc = "call", !.ops = Tail(sl.ops), !.cur = op, !.aw = aw],
                    cache,
                    IF hit /\ UpsertAwaitsNoCache(op) = <<"define", "write">>
                    THEN Append(nc, Call(sl.n, "write", op.id, op.val)) ELSE nc)

\* the value writes among a sequence of calls
IsWrite(c) == c.op = "write" /\ c.id # LastUpdateId

(***************************************************************************)
(* updateData (main.ts:236-304).                                           *)
(***************************************************************************)
\* a guard that never skips
GuardNever(flag) == FALSE

\* the overlap guard test (main.ts:238-241)
GuardBlocks(flag) == flag

\* a guard that is released at the end of the try block instead of in finally
GuardKeptOnThrow(flag, threw) == IF threw THEN flag ELSE FALSE

\* a guard that the early return leaves held
GuardKept(flag, threw) == flag

\* the guard after the try block is left (main.ts:300-303); threw tells
\* whether it is left by an exception
GuardAfterCycle(flag, threw) == FALSE

\* whether the cycle returns at once (main.ts:250-253):
\* !locations || !Array.isArray(locations) || locations.length === 0
NoLocations(c) == c.locationsKind # "list" \/ Len(c.locations) = 0

\* the calls of a history that cycle n - 1 or a later one has issued: the
\* histories keep the last two cycles
Recent(h, n) == SelectSeq(h, LAMBDA c : c.c >= n - 1)

\* One invocation of updateData in slot s, up to its first await: a skipped
\* call, a cycle without locations (which ends at once), or the fetch of
\* the first location.
updateData(s) ==
    /\ calls' = calls + 1
    /\ IF GuardBlocks(isUpdating)
       THEN UNCHANGED <<isUpdating, cyc, cycles, log, ncWrites>>
       ELSE /\ cycles' = cycles + 1
            /\ IF NoLocations(cfg)
               THEN /\ isUpdating' = GuardAfterCycle(TRUE, FALSE)
                    /\ UNCHANGED <<cyc, log, ncWrites>>
               ELSE LET sl == [IdleSlot EXCEPT !.pc = "fetch", !.li = 1, !.n = cycles + 1]
                    IN  /\ isUpdating' = TRUE
                        /\ cyc' = [cyc EXCEPT ![s] = sl]
                        /\ log' = Append(Recent(log, sl.n), PendingCall(sl))
                        /\ ncWrites' = Recent(ncWrites, sl.n)

\* an awaited call of the cycle in slot s throws: catch, finally
\* (main.ts:298-303)
Fail(s) ==
    /\ faults < MaxFaults
    /\ faults' = faults + 1
    /\ cyc' = [cyc EXCEPT ![s] = IdleSlot]
    /\ isUpdating' = GuardAfterCycle(isUpdating, TRUE)
    /\ UNCHANGED <<unloaded, cfg, systemConfig, cachedTranslations, feed, objects, states,
                   createdObjects, updateInterval, rpc, allObjects, ci, calls, cycles, ticks, log,
                   ncWrites, defIssued, defDone>>

\* the cycle in slot s goes on after an awaited call has returned, or ends
\* in catch and finally (main.ts:298-303) when the code that follows throws;
\* ret is what the history records of the result of the call
Continue(s, sl, cache, ret, nc0) ==
    LET r == Settle(sl, cache, nc0)
        threw == r.sl.pc = "thrown"
    IN  /\ cyc' = [cyc EXCEPT ![s] = IF threw THEN IdleSlot ELSE r.sl]
        /\ isUpdating' = IF threw THEN GuardAfterCycle(isUpdating, TRUE) ELSE isUpdating
        /\ log' = IF threw THEN log \o ret ELSE Append(log \o ret, PendingCall(r.sl))
        /\ ncWrites' = ncWrites \o r.nc
        /\ defIssued' = IF ~threw /\ PendingCall(r.sl).op = "define"
                        THEN Bump(defIssued, r.sl.cur.id) ELSE defIssued

\* await fetchAllWeatherData(...) (main.ts:259-284)
CycFetch(s) ==
    /\ cyc[s].pc = "fetch"
    /\ \/ Fail(s)
       \/ \E r \in 1..feed.readings, w \in BOOLEAN :
            LET data == Snapshot(r, w, feed, cfg)
                sl == [cyc[s] EXCEPT !.ops = LocationOps(data, FolderOf(cyc[s].li), cfg,
                                                          cachedTranslations),
                                     !.aw = <<>>]
                ret == Call(sl.n, "snapshot", <<FolderOf(sl.li)>>, Num(IF w THEN r ELSE 0))
            IN  /\ Continue(s, sl, createdObjects, <<ret>>, <<>>)
                /\ UNCHANGED <<unloaded, cfg, systemConfig, cachedTranslations, feed, objects,
                               states, createdObjects, updateInterval, rpc, allObjects, ci, calls,
                               cycles, ticks, faults, defDone>>

\* CycDefine with createdObjects.add(id) moved in front of the awaited
\* definition call: a call that throws leaves the id in the cache
CycDefineCacheFirst(s) ==
    /\ cyc[s].pc = "call"
    /\ cyc[s].aw # <<>>
    /\ Head(cyc[s].aw) = "define"
    /\ \/ /\ faults < MaxFaults
          /\ faults' = faults + 1
          /\ cyc' = [cyc EXCEPT ![s] = IdleSlot]
          /\ isUpdating' = GuardAfterCycle(isUpdating, TRUE)
          /\ createdObjects' = createdObjects \cup {cyc[s].cur.id}
          /\ UNCHANGED <<unloaded, cfg, systemConfig, cachedTranslations, feed, objects, states,
                         updateInterval, rpc, allObjects, ci, calls, cycles, ticks, log, ncWrites,
                         defIssued, defDone>>
       \/ LET op == cyc[s].cur
              sl == [cyc[s] EXCEPT !.aw = Tail(cyc[s].aw)]
              nc == IF UpsertAwaitsNoCache(op) = <<"define", "write">>
                    THEN << Call(cyc[s].n, "write", op.id, op.val) >> ELSE <<>>
          IN  /\ objects' = objects \cup {FullId(op.id)}
              /\ createdObjects' = createdObjects \cup {op.id}
              /\ defDone' = Bump(defDone, op.id)
              /\ Continue(s, sl, createdObjects', <<>>, nc)
              /\ UNCHANGED <<unloaded, cfg, systemConfig, cachedTranslations, feed, states,
                             updateInterval, rpc, allObjects, ci, calls, cycles, ticks, faults>>

\* await setObjectNotExistsAsync(id, ...); createdObjects.add(id)
\* (main.ts:642-654, main.ts:674-686)
CycDefine(s) ==
    /\ cyc[s].pc = "call"
    /\ cyc[s].aw # <<>>
    /\ Head(cyc[s].aw) = "define"
    /\ \/ Fail(s)
       \/ LET op == cyc[s].cur
              sl == [cyc[s] EXCEPT !.aw = Tail(cyc[s].aw)]
              nc == IF UpsertAwaitsNoCache(op) = <<"define", "write">>
                    THEN << Call(cyc[s].n, "write", op.id, op.val) >> ELSE <<>>
          IN  /\ objects' = objects \cup {FullId(op.id)}
              /\ createdObjects' = createdObjects \cup {op.id}
              /\ defDone' = Bump(defDone, op.id)
              /\ Continue(s, sl, createdObjects', <<>>, nc)
              /\ UNCHANGED <<unloaded, cfg, systemConfig, cachedTranslations, feed, states,
                             updateInterval, rpc, allObjects, ci, calls, cycles, ticks, faults>>

\* await setState(id, {val, ack: true}) (main.ts:656, main.ts:688)
CycWrite(s) ==
    /\ cyc[s].pc = "call"
    /\ cyc[s].aw # <<>>
    /\ Head(cyc[s].aw) = "write"
    /\ \/ Fail(s)
       \/ LET op == cyc[s].cur
              sl == [cyc[s] EXCEPT !.aw = Tail(cyc[s].aw)]
          IN  /\ states' = (FullId(op.id) :> op.val) @@ states
              /\ Continue(s, sl, createdObjects, <<>>, <<>>)
              /\ UNCHANGED <<unloaded, cfg, systemConfig, cachedTranslations, feed, objects,
                             createdObjects, updateInterval, rpc, allObjects, ci, calls, cycles,
                             ticks, faults, defDone>>

\* await setState('info.lastUpdate', ...), then finally (main.ts:297-303)
CycStamp(s) ==
    /\ cyc[s].pc = "stamp"
    /\ \/ Fail(s)
       \/ /\ states' = (FullId(LastUpdateId) :> PendingCall(cyc[s]).val) @@ states
          /\ cyc' = [cyc EXCEPT ![s] = IdleSlot]
          /\ isUpdating' = GuardAfterCycle(isUpdating, FALSE)
          /\ UNCHANGED <<unloaded, cfg, systemConfig, cachedTranslations, feed, objects,
                         createdObjects, updateInterval, rpc, allObjects, ci, calls, cycles, ticks,
                         faults, log, ncWrites, defIssued, defDone>>

\* the recurring timer fires: () => this.updateData() (main.ts:157)
Tick(s) ==
    /\ updateInterval = "set"
    /\ ticks < MaxTicks
    /\ cyc[s].pc = "idle"
    /\ \A t \in Slots : t < s => cyc[t].pc # "idle"
    /\ ticks' = ticks + 1
    /\ updateData(s)
    /\ UNCHANGED <<unloaded, cfg, systemConfig, cachedTranslations, feed, objects, states,
                   createdObjects, updateInterval, rpc, allObjects, ci, faults, defIssued, defDone>>

(***************************************************************************)
(* onReady (main.ts:117-159) with cleanupDeletedLocations (main.ts:161-233)*)
(***************************************************************************)
\* the catch of onReady (main.ts:148-150) and the first sync cycle
\* (main.ts:152), after an awaited call of the initialization has thrown
ReadyThrow ==
    /\ faults < MaxFaults
    /\ faults' = faults + 1
    /\ rpc' = "update"
    /\ updateData(1)
    /\ UNCHANGED <<unloaded, cfg, systemConfig, cachedTranslations, feed, objects, states,
                   createdObjects, updateInterval, allObjects, ci, ticks, defIssued, defDone>>

\* the loop of cleanupDeletedLocations from index from on, up to its next
\* await: a delete, or after the loop the extendObject of onReady
CleanupFrom(all, from) ==
    LET k == NextDelete(all, from, cfg)
    IN  /\ ci' = k
        /\ rpc' = IF k = 0 THEN "extend" ELSE "del"
        /\ log' = IF k = 0 THEN log ELSE Append(log, Call(0, "delete", all[k], Undef))

\* an onReady that starts the first sync cycle before it reconciles
ReadySysConfigSyncFirst ==
    /\ rpc = "sysconfig"
    /\ rpc' = "enum"
    /\ updateData(1)
    /\ UNCHANGED <<unloaded, cfg, systemConfig, cachedTranslations, feed, objects, states,
                   createdObjects, updateInterval, allObjects, ci, ticks, faults, defIssued,
                   defDone>>

\* await getForeignObjectAsync('system.config') (main.ts:120); then the
\* caching of the translations of the system language (main.ts:121-131) and
\* cleanupDeletedLocations up to its first await, where locations.map
\* (main.ts:164-166) throws for a config.locations that is truthy and no array
ReadySysConfig ==
    /\ rpc = "sysconfig"
    /\ \/ ReadyThrow
       \/ /\ cfg.locationsKind = "other"
          /\ cachedTranslations' = weatherTranslations(systemConfig)
          /\ rpc' = "update"
          /\ updateData(1)
          /\ UNCHANGED <<unloaded, cfg, systemConfig, feed, objects, states, createdObjects,
                         updateInterval, allObjects, ci, ticks, faults, defIssued, defDone>>
       \/ /\ cfg.locationsKind # "other"
          /\ cachedTranslations' = weatherTranslations(systemConfig)
          /\ rpc' = "enum"
          /\ UNCHANGED <<unloaded, cfg, systemConfig, feed, objects, states, createdObjects,
                         isUpdating, updateInterval, allObjects, ci, cyc, calls, cycles, ticks,
                         faults, log, ncWrites, defIssued, defDone>>

\* await getAdapterObjectsAsync() (main.ts:173)
ReadyEnum ==
    /\ rpc = "enum"
    /\ \/ ReadyThrow
       \/ /\ allObjects' = SelectSeq(allObjects, LAMBDA o : o \in objects)
          /\ CleanupFrom(allObjects', 1)
          /\ UNCHANGED <<unloaded, cfg, systemConfig, cachedTranslations, feed, objects, states,
                         createdObjects, isUpdating, updateInterval, cyc, calls, cycles, ticks,
                         faults, ncWrites, defIssued, defDone>>

\* await delObjectAsync(objId, {recursive: true}) (main.ts:184-224)
ReadyDel ==
    /\ rpc = "del"
    /\ \/ ReadyThrow
       \/ /\ objects' = DelRecursive(objects, allObjects[ci])
          /\ states' = [o \in DelRecursive(DOMAIN states, allObjects[ci]) |-> states[o]]
          /\ CleanupFrom(allObjects, ci + 1)
          /\ UNCHANGED <<unloaded, cfg, systemConfig, cachedTranslations, feed, createdObjects,
                         isUpdating, updateInterval, allObjects, cyc, calls, cycles, ticks, faults,
                         ncWrites, defIssued, defDone>>

\* await extendObject('info.lastUpdate', ...) (main.ts:137-147), then the
\* first sync cycle (main.ts:152)
ReadyExtend ==
    /\ rpc = "extend"
    /\ \/ ReadyThrow
       \/ /\ objects' = objects \cup {FullId(LastUpdateId)}
          /\ rpc' = "update"
          /\ updateData(1)
          /\ UNCHANGED <<unloaded, cfg, systemConfig, cachedTranslations, feed, states,
                         createdObjects, updateInterval, allObjects, ci, ticks, faults, defIssued,
                         defDone>>

\* the first sync cycle has returned: setInterval (main.ts:153-158)
ReadySetInterval ==
    /\ rpc = "update"
    /\ cyc[1].pc = "idle"
    /\ updateInterval' = "set"
    /\ rpc' = "done"
    /\ UNCHANGED <<unloaded, cfg, systemConfig, cachedTranslations, feed, objects, states,
                   createdObjects, isUpdating, allObjects, ci, cyc, calls, cycles, ticks, faults,
                   log, ncWrites, defIssued, defDone>>

\* onUnload (main.ts:691-698): the recurring timer is cleared if
\* updateInterval holds one; the host calls the hook once
Unload ==
    /\ ~unloaded
    /\ unloaded' = TRUE
    /\ updateInterval' = IF updateInterval = "set" THEN "cleared" ELSE updateInterval
    /\ UNCHANGED <<cfg, systemConfig, cachedTranslations, feed, objects, states, createdObjects,
                   isUpdating, rpc, allObjects, ci, cyc, calls, cycles, ticks, faults, log,
                   ncWrites, defIssued, defDone>>

(***************************************************************************)
(* Specifications.                                                         *)
(***************************************************************************)
\* the state after construction (main.ts:9-22) in one of the given worlds:
\* a configuration, a remote service and a persisted tree
InitFrom(worlds) ==
    /\ \E w \in worlds :
         /\ cfg = w.cfg
         /\ systemConfig = w.lang
         /\ feed = w.feed
         /\ allObjects = w.tree
    /\ objects = {allObjects[i] : i \in 1..Len(allObjects)}
    /\ states = [o \in objects |-> Num(0)]
    /\ cachedTranslations = "null"
    /\ createdObjects = {}
    /\ isUpdating = FALSE
    /\ updateInterval = "unset"
    /\ rpc = "sysconfig"
    /\ ci = 0
    /\ cyc = [s \in Slots |-> IdleSlot]
    /\ calls = 0
    /\ cycles = 0
    /\ ticks = 0
    /\ faults = 0
    /\ log = <<>>
    /\ ncWrites = <<>>
    /\ defIssued = <<>>
    /\ defDone = <<>>
    /\ unloaded = FALSE

\* lang is the language system.config holds
World(c, fd, tree) == [cfg |-> c, feed |-> fd, tree |-> tree, lang |-> "de"]

\* world w on a system whose language is lang
Speaking(w, lang) == [w EXCEPT !.lang = lang]

LocA == <<"A">>

LocB == <<"B">>

\* ids a persisted tree can hold under a location folder
CurrentId(f) == FullId(<<f, "weather", "current", "temperature_2m">>)

DayId(f, n) == FullId(<<f, "weather", "forecast", "day" \o ToString(n), "temperature_2m_max">>)

HourId(f, n) ==
    FullId(<<f, "weather", "forecast", "hourly", "next_hours", "hour" \o ToString(n),
             "temperature_2m">>)

AirId(f) == FullId(<<f, "air", "current", "pm10">>)

\* a tree left by an earlier run with the locations A and C
OldTree == <<CurrentId("A"), CurrentId("C"), FullId(LastUpdateId)>>

TemperatureFeed(n) == Feed(<<"temperature_2m">>, <<>>, <<"time">>, <<"pm10">>, n)

WeatherCodeFeed(n) == Feed(<<"weather_code">>, <<>>, <<"time">>, <<"pm10">>, n)

\* a service that delivers every section: current, daily, hourly, air quality
FullFeed(n) == Feed(<<"temperature_2m">>, <<"time">>, <<"time">>, <<"pm10">>, n)

Worlds ==
    { World(Config(<<>>, 1, 0, FALSE, FALSE), TemperatureFeed(MaxReading), OldTree),
      World(Config(<<LocA>>, 1, 0, FALSE, FALSE), WeatherCodeFeed(MaxReading), OldTree),
      World(Config(<<LocA, LocB>>, 1, 0, FALSE, FALSE), TemperatureFeed(MaxReading), <<>>),
      World(Config(<<LocA>>, 1, 1, TRUE, TRUE), FullFeed(1), <<>>),
      World(NoList(Config(<<>>, 1, 0, FALSE, FALSE), "missing"), TemperatureFeed(1), OldTree),
      World(NoList(Config(<<>>, 1, 0, FALSE, FALSE), "other"), TemperatureFeed(1), OldTree) }

Init == InitFrom(Worlds)

Startup == ReadySysConfig \/ ReadyEnum \/ ReadyDel \/ ReadyExtend \/ ReadySetInterval

Cycle(s) == CycFetch(s) \/ CycDefine(s) \/ CycWrite(s) \/ CycStamp(s)

Next == Startup \/ \E s \in Slots : Tick(s) \/ Cycle(s)

Spec == Init /\ [][Next]_vars

\* largest forecast-day and forecast-hour index of a persisted tree
MaxTreeDay == 5

MaxTreeHour == 2

LocAB == <<"A", "-", "B">>

\* the ids an earlier run has left under folder f
LocationTree(f) ==
    <<AirId(f), CurrentId(f)>>
    \o [i \in 1..(MaxTreeDay + 1) |-> DayId(f, i - 1)]
    \o [i \in 1..(MaxTreeHour + 1) |-> HourId(f, i - 1)]

Tree(folders) ==
    Concat([i \in 1..Len(folders) |-> LocationTree(folders[i])]) \o <<FullId(LastUpdateId)>>

Reverse(q) == [i \in 1..Len(q) |-> q[Len(q) + 1 - i]]

\* a tree left by a run with 25 forecast hours and 8 forecast days
LateTree ==
    <<HourId("A", 0), HourId("A", 23), HourId("A", 24), DayId("A", 0), DayId("A", 6),
      DayId("A", 7), AirId("A")>>

\* The startup of the adapter, up to the call of the first sync cycle, over
\* persisted trees of three locations and the configurations that keep some
\* of them.
ReconcileWorlds ==
    { World(Config(locs, days, hours, hoursOn, airOn), TemperatureFeed(1), tree) :
        locs \in {<<LocA, LocB>>, <<LocA>>, <<LocAB>>},
        days \in {0, 1, 3}, hours \in {0, 2}, hoursOn \in BOOLEAN, airOn \in BOOLEAN,
        tree \in {Tree(<<"A", "B", "C">>), Reverse(Tree(<<"A_B", "A", "C">>)), LateTree} }

InitReconcile == InitFrom(ReconcileWorlds)

Reconcile == ReadySysConfig \/ ReadyEnum \/ ReadyDel \/ ReadyExtend

SpecReconcile == InitReconcile /\ [][Reconcile]_vars

\* The same program with a remote service that always delivers the same
\* reading, under the assumption that every awaited fetch or store call of a
\* cycle eventually returns or throws.
FairWorlds ==
    { World(Config(<<>>, 1, 0, FALSE, FALSE), TemperatureFeed(1), <<>>),
      World(Config(<<LocA>>, 1, 0, FALSE, FALSE), WeatherCodeFeed(1), OldTree),
      World(Config(<<LocA, LocB>>, 1, 0, FALSE, FALSE), TemperatureFeed(1), <<>>) }

InitFair == InitFrom(FairWorlds)

SpecFair == InitFair /\ [][Next]_vars /\ \A s \in Slots : WF_vars(Cycle(s))

(***************************************************************************)
(* Properties.                                                             *)
(***************************************************************************)
InFlight == {s \in Slots : cyc[s].pc # "idle"}

\* C1: at most one sync cycle is between its guard acquisition and its guard
\* release at any time, and the guard is held while a cycle is in flight.
C1_AtMostOneCycle ==
    /\ Cardinality(InFlight) <= 1
    /\ InFlight # {} => isUpdating

\* a timer tick has called updateData while a cycle was in flight
C1_Witness == InFlight # {} /\ ticks > 0 /\ calls > cycles

\* C2: a call of updateData made while the guard is held issues no fetch and
\* no store call, throws nothing, leaves the guard, the object cache, the
\* store and the cycle in flight unchanged, and starts no cycle; a cycle only
\* ever starts in a step that is a call of updateData that found the guard free.
C2_SkippedCallIsDropped ==
    [][ /\ (calls' = calls + 1 /\ isUpdating) =>
             UNCHANGED <<isUpdating, createdObjects, objects, states, cyc, cycles, log, faults,
                         defIssued>>
        /\ cycles' # cycles => (calls' = calls + 1 /\ ~isUpdating /\ cycles' = cycles + 1)
      ]_vars

\* a call has been skipped and the cycle that was in flight has ended
C2_Witness == calls > cycles /\ InFlight = {} /\ ~isUpdating /\ cycles >= 1

\* the store calls of cycle n that the history holds
CallsOf(n) == SelectSeq(log, LAMBDA c : c.c = n)

Issued(n, op, id) == \E i \in 1..Len(log) : log[i].c = n /\ log[i].op = op /\ log[i].id = id

\* C3: every cycle that is in flight eventually ends with the guard released,
\* whatever its exit path, and the guard is never left held without a cycle
\* in flight, so that a call made after a failed cycle starts a new cycle.
C3_CycleEndsIdle ==
    /\ \A s \in Slots : (cyc[s].pc # "idle") ~> (cyc[s].pc = "idle" /\ ~isUpdating)
    /\ [](InFlight = {} => ~isUpdating)

\* a cycle is in flight whose predecessor fetched and ended without its
\* timestamp write, that is by an exception
C3_Witness ==
    \E s \in Slots :
        /\ cyc[s].pc # "idle"
        /\ cyc[s].n >= 2
        /\ \E l \in 1..Len(cfg.locations) : Issued(cyc[s].n - 1, "fetch", <<FolderOf(l)>>)
        /\ ~Issued(cyc[s].n - 1, "write", LastUpdateId)

\* the numbers of the cycles the history holds
LoggedCycles == {log[i].c : i \in 1..Len(log)} \ {0}

\* cycle n has run and is no longer in flight
Ended(n) == n \in LoggedCycles /\ \A s \in Slots : cyc[s].pc = "idle" \/ cyc[s].n # n

\* cycle n has ended through its timestamp write: nothing before it threw
Completed(n) == Ended(n) /\ Issued(n, "write", LastUpdateId)

\* C4 (as claimed): in a cycle that has ended, the fetch of a location is
\* followed by the fetch of the next configured location, whatever happened
\* to the former.
C4_LaterLocationsStillSynced ==
    \A n \in LoggedCycles : \A l \in 1..(Len(cfg.locations) - 1) :
        (Ended(n) /\ Issued(n, "fetch", <<FolderOf(l)>>))
            => Issued(n, "fetch", <<FolderOf(l + 1)>>)

\* C5 (as claimed): a cycle with at least one location that has ended has
\* issued the timestamp write, also when a location failed, and the
\* timestamp write follows every other write of the cycle.
C5_StampDespiteLocationFailure ==
    \A n \in LoggedCycles :
        Ended(n) =>
            /\ Issued(n, "write", LastUpdateId)
            /\ \A i, j \in 1..Len(log) :
                 (log[i].c = n /\ log[j].c = n /\ log[i].id = LastUpdateId
                  /\ log[j].op = "write" /\ log[j].id # LastUpdateId) => j < i

\* the entries of cycle n with operation op, as <<id, value>> pairs
Pairs(n, op) ==
    LET e == SelectSeq(log, LAMBDA c : c.c = n /\ c.op = op /\ c.id # LastUpdateId)
    IN  [i \in 1..Len(e) |-> <<e[i].id, e[i].val>>]

PairSet(n, op) == {Pairs(n, op)[i] : i \in 1..Len(Pairs(n, op))}

\* the value cycle n has written last to id
LastWritten(n, id) ==
    LET w == Pairs(n, "write")
        k == CHOOSE i \in 1..Len(w) : w[i][1] = id /\ \A j \in (i + 1)..Len(w) : w[j][1] # id
    IN  w[k][2]

\* C6: when two consecutive cycles have both run to their end on identical
\* snapshots, the second has issued no metadata-definition call and has
\* written the same values, which are the final values of the store; and the
\* first cycle of the process has issued exactly one definition call for each
\* id it has written.
C6_Idempotent ==
    \A n \in LoggedCycles :
        (Completed(n) /\ n - 1 \in LoggedCycles /\ Completed(n - 1)
         /\ Pairs(n, "snapshot") = Pairs(n - 1, "snapshot")) =>
            /\ Pairs(n, "define") = <<>>
            /\ Pairs(n, "write") = Pairs(n - 1, "write")
            /\ \A p \in PairSet(n, "write") :
                 /\ FullId(p[1]) \in DOMAIN states
                 /\ states[FullId(p[1])] = LastWritten(n - 1, p[1])
            /\ n = 2 =>
                 \A p \in PairSet(1, "write") :
                     Cardinality({i \in 1..Len(Pairs(1, "define")) :
                                    Pairs(1, "define")[i][1] = p[1]}) = 1

\* two consecutive cycles have run to their end on one snapshot that has data
C6_Witness ==
    /\ Completed(1) /\ Completed(2)
    /\ Pairs(2, "snapshot") = Pairs(1, "snapshot")
    /\ Pairs(2, "write") # <<>>

\* The ids of the raw fields of a fetch result for folder f, from the id
\* scheme <slug>.<section>.<subsection>.<field>.
FieldIds(f, data, c) ==
    (IF data.weather.present
     THEN {<<f, "weather", "current", data.weather.current[i].k>> :
              i \in 1..Len(data.weather.current)}
          \cup {<<f, "weather", "forecast", "day" \o ToString(d), data.weather.daily[k].k>> :
                   d \in 0..(TimeLength(data.weather.daily) - 1),
                   k \in 1..Len(data.weather.daily)}
     ELSE {})
    \cup (IF data.hourly.present
          THEN {<<f, "weather", "forecast", "hourly", "next_hours", "hour" \o ToString(h),
                  data.hourly.hourly[k].k>> :
                   h \in {x \in 0..(TimeLength(data.hourly.hourly) - 1) : x < HoursLimit(c)},
                   k \in 1..Len(data.hourly.hourly)}
          ELSE {})
    \cup (IF data.air.present
          THEN {<<f, "air", "current", data.air.current[i].k>> : i \in 1..Len(data.air.current)}
          ELSE {})

\* the raw field ids of the snapshots cycle n has fetched
SnapshotIds(n) ==
    UNION { FieldIds(p[1][1], Snapshot(p[2].n, p[2].n # 0, feed, cfg), cfg) :
              p \in PairSet(n, "snapshot") }

\* C7 (as claimed): over all cycles, failed ones included, the
\* metadata-definition call is issued at most once per id, and every cycle
\* that has ended has written every id of its snapshots.
C7_DefinitionIssuedOnce ==
    /\ \A id \in DOMAIN defIssued : defIssued[id] <= 1
    /\ \A n \in LoggedCycles : Ended(n) => \A id \in SnapshotIds(n) : Issued(n, "write", id)

\* C7 (amended): the metadata-definition call returns at most once per id,
\* and once it has returned no definition call is issued for the id again;
\* every cycle that has run to its end has written every id of its snapshots.
C7_DefinitionReturnsOnce ==
    [][ /\ \A id \in DOMAIN defDone' : defDone'[id] <= 1
        /\ \A id \in DOMAIN defDone : Count(defIssued', id) = Count(defIssued, id)
        /\ \A n \in LoggedCycles' :
             Completed(n)' => \A id \in SnapshotIds(n)' : Issued(n, "write", id)'
      ]_vars

\* a definition call has thrown and has been issued again in the next cycle,
\* where it has returned, and the cycle has run to its end
C7_Witness ==
    \E id \in DOMAIN defDone :
        /\ Count(defIssued, id) = 2
        /\ \E n \in LoggedCycles : Completed(n) /\ Issued(n, "define", id)

\* C8: the value writes of the synchronizer are, in order, the value writes
\* of the cache-less synchronizer run on the same fetch results and the same
\* store.
C8_CacheIsOptimization ==
    SelectSeq(log, IsWrite) = ncWrites

\* a value has been written for an id that the cache held
C8_Witness ==
    \E i \in 1..Len(log) :
        /\ IsWrite(log[i])
        /\ log[i].c >= 2
        /\ ~Issued(log[i].c, "define", log[i].id)
        /\ SelectSeq(log, IsWrite) = ncWrites

\* the ids the store held at startup
Persisted == {allObjects[i] : i \in 1..Len(allObjects)}

\* a delete call has been issued for id o
Deleted(o) == \E i \in 1..Len(log) : log[i].op = "delete" /\ log[i].id = o

\* the reconciliation pass has run to its end
Reconciled == rpc = "extend"

\* the index n of a segment <word><n>, -1 if the segment is none
IndexOf(seg, word) ==
    IF \E n \in Digits : seg = word \o ToString(n)
    THEN CHOOSE n \in Digits : seg = word \o ToString(n)
    ELSE -1

\* id o of a location folder belongs to an enabled feature group and lies in
\* the configured forecast ranges
WithinConfig(o) ==
    CASE o[4] = "air" -> cfg.airQualityEnabled
      [] o[4] = "weather" /\ o[5] = "current" -> TRUE
      [] o[4] = "weather" /\ o[5] = "forecast" /\ o[6] = "hourly" ->
            /\ cfg.forecastHoursEnabled
            /\ IndexOf(o[8], "hour") # -1
            /\ IndexOf(o[8], "hour") < cfg.forecastHours
      [] o[4] = "weather" /\ o[5] = "forecast" /\ o[6] # "hourly" ->
            /\ IndexOf(o[6], "day") # -1
            /\ IndexOf(o[6], "day") < cfg.forecastDays
      [] OTHER -> FALSE

\* C9: when the reconciliation pass has run to its end, every persisted id
\* under a folder that is no configured location has been deleted, and no
\* delete has been issued for an id under a configured location that lies
\* within the enabled features and the configured day and hour ranges.
C9_RemovedLocationsDeleted ==
    Reconciled =>
        \A o \in Persisted :
            IF o[3] \notin {Slug(cfg.locations[i]) : i \in 1..Len(cfg.locations)}
            THEN o \notin objects /\ Deleted(o)
            ELSE WithinConfig(o) => (o \in objects /\ ~Deleted(o))

\* locations A and B are configured, the tree held ids under A, B and C, and
\* the pass has deleted those under C and kept those under A and B
C9_Witness ==
    /\ Reconciled
    /\ cfg.locations = <<LocA, LocB>>
    /\ {CurrentId("A"), CurrentId("B"), CurrentId("C"), DayId("C", 0)} \subseteq Persisted
    /\ {CurrentId("C"), DayId("C", 0)} \cap objects = {}
    /\ {CurrentId("A"), CurrentId("B"), DayId("A", 0), DayId("B", 0)} \subseteq objects

\* C10: when the reconciliation pass has run to its end with forecastDays = D
\* (1 when forecastDays is unset), of the persisted forecast days of a
\* configured location exactly those with an index >= D have been deleted.
C10_ForecastDaysTrimmed ==
    Reconciled =>
        LET D == IF cfg.forecastDays # 0 THEN cfg.forecastDays ELSE 1
        IN  \A i \in 1..Len(cfg.locations) : \A n \in Digits :
                DayId(Slug(cfg.locations[i]), n) \in Persisted =>
                    /\ DayId(Slug(cfg.locations[i]), n) \in objects <=> n < D
                    /\ Deleted(DayId(Slug(cfg.locations[i]), n)) <=> n >= D

\* forecastDays is 3, the tree held day0..day5 of location A, and exactly
\* day3, day4 and day5 are gone
C10_Witness ==
    /\ Reconciled
    /\ cfg.forecastDays = 3
    /\ {DayId("A", n) : n \in 0..5} \subseteq Persisted
    /\ {DayId("A", n) : n \in 0..5} \cap objects = {DayId("A", n) : n \in 0..2}

\* the folders of the configured locations
Configured == {Slug(cfg.locations[i]) : i \in 1..Len(cfg.locations)}

\* id o lies in the air-quality subtree of its folder
IsAirId(o) == Len(o) > 3 /\ o[4] = "air"

\* id o lies in the hourly-forecast subtree of its folder
IsHourlyId(o) == Len(o) > 5 /\ o[4] = "weather" /\ o[5] = "forecast" /\ o[6] = "hourly"

\* C11: when the reconciliation pass has run to its end, every persisted id
\* of the air-quality subtree of a configured location has been deleted if
\* airQuality is off and none of them if it is on; every persisted id of the
\* hourly subtree has been deleted if the hourly forecast is off, and if it
\* is on only ids whose hour index is not below the hour limit.
C11_DisabledFeaturesDeleted ==
    Reconciled =>
        \A o \in Persisted :
            o[3] \in Configured =>
                /\ IsAirId(o) =>
                     IF cfg.airQualityEnabled THEN o \in objects /\ ~Deleted(o)
                     ELSE o \notin objects /\ Deleted(o)
                /\ IsHourlyId(o) =>
                     IF cfg.forecastHoursEnabled
                     THEN Deleted(o) =>
                            IndexOf(o[8], "hour") >=
                                (IF cfg.forecastHours # 0 THEN cfg.forecastHours ELSE 24)
                     ELSE o \notin objects /\ Deleted(o)

\* air quality is off and the hourly forecast on: the air ids of A and B are
\* gone, their first forecast hour is kept
C11_Witness ==
    /\ Reconciled
    /\ cfg.locations = <<LocA, LocB>>
    /\ ~cfg.airQualityEnabled /\ cfg.forecastHoursEnabled
    /\ {AirId("A"), AirId("B"), HourId("A", 0), HourId("B", 0)} \subseteq Persisted
    /\ {AirId("A"), AirId("B")} \cap objects = {}
    /\ {HourId("A", 0), HourId("B", 0)} \subseteq objects

\* C12: when the reconciliation pass has run to its end with the hourly
\* forecast on and forecastHours = H (24 when forecastHours is unset), of the
\* persisted forecast hours of a configured location exactly those with an
\* index >= H have been deleted; with the hourly forecast off every persisted
\* forecast hour has been deleted, whatever its index.
C12_ForecastHoursTrimmed ==
    Reconciled =>
        LET H == IF cfg.forecastHours # 0 THEN cfg.forecastHours ELSE 24
        IN  \A f \in Configured : \A n \in Digits :
                HourId(f, n) \in Persisted =>
                    IF cfg.forecastHoursEnabled
                    THEN /\ HourId(f, n) \in objects <=> n < H
                         /\ Deleted(HourId(f, n)) <=> n >= H
                    ELSE HourId(f, n) \notin objects /\ Deleted(HourId(f, n))

\* the hourly forecast is on with forecastHours = 2, the tree held hour0,
\* hour1 and hour2 of location A, and exactly hour2 is gone
C12_Witness ==
    /\ Reconciled
    /\ cfg.forecastHoursEnabled /\ cfg.forecastHours = 2
    /\ {HourId("A", n) : n \in 0..2} \subseteq Persisted
    /\ {HourId("A", n) : n \in 0..2} \cap objects = {HourId("A", 0), HourId("A", 1)}

\* a service that delivers the current temperature and the time stamps of
\* the forecast days and hours
ForecastFeed(n) == Feed(<<"temperature_2m">>, <<"time">>, <<"time">>, <<>>, n)

\* The startup and the first sync cycle of the program with forecastDays and
\* forecastHours set or left unset, over a tree an earlier run has left.
DefaultWorlds ==
    { World(Config(<<LocA>>, days, hours, hoursOn, FALSE), ForecastFeed(1), OldTree) :
        days \in {0, 2}, hours \in {0, 2}, hoursOn \in BOOLEAN }

InitDefaults == InitFrom(DefaultWorlds)

\* onReady with the sync cycle it starts
FirstCycle == Startup \/ Cycle(1)

SpecDefaults == InitDefaults /\ [][FirstCycle]_vars

\* C13 (as claimed): no data point that a sync cycle has defined or written
\* under a configured location would be deleted by a reconciliation pass run
\* under the same configuration.
C13_WrittenIdsAreValid ==
    \A i \in 1..Len(log) :
        (log[i].op \in {"define", "write"} /\ log[i].id[1] \in Configured)
            => ~CleanupDeletes(FullId(log[i].id), cfg)

\* onReady is past its initialization: updateData has been called
PastStartup == rpc \in {"update", "done"}

\* the step issues a delete call
IssuesDelete == rpc' = "del" /\ <<rpc, ci>> # <<rpc', ci'>>

\* a step in which reconciliation happens at startup only: a delete call is
\* only issued before the first call of updateData; the enumeration and the
\* deletes of the pass are never awaited again once onReady has called
\* updateData; the first cycle starts in the step that ends the
\* initialization; and the delete calls the history holds precede every call
\* of a sync cycle
StartupOnlyStep ==
    /\ IssuesDelete => (calls = 0 /\ cycles = 0 /\ InFlight = {} /\ ~PastStartup)
    /\ PastStartup => (PastStartup' /\ ci' = ci /\ allObjects' = allObjects)
    /\ (calls = 0 /\ calls' # 0) => (~PastStartup /\ PastStartup')
    /\ calls # 0 => PastStartup
    /\ \A i, j \in 1..Len(log') : (i < j /\ log'[j].op = "delete") => log'[i].op = "delete"

DeleteThrew == PastStartup /\ ci > 0

\* C15 (as claimed): when a delete call of the reconciliation pass has
\* thrown, a delete call has still been issued for every later enumerated id
\* that the rules delete.
C15_DeleteFailureDoesNotAbort ==
    DeleteThrew =>
        \A i \in (ci + 1)..Len(allObjects) :
            CleanupDeletes(allObjects[i], cfg) => Deleted(allObjects[i])

\* C16: with no locations configured (config.locations missing, no array, or
\* empty) a call of updateData that finds the guard free counts as a cycle
\* that ends in the same step: no cycle is ever in flight, the guard is
\* never held, no fetch, definition or write is ever issued by a cycle, the
\* cache stays empty, no value is written (the timestamp included), and
\* nothing is thrown.
C16_NoLocationsNoWork ==
    [][ NoLocations(cfg) =>
          /\ InFlight' = {} /\ ~isUpdating'
          /\ LoggedCycles' = {}
          /\ createdObjects' = {} /\ defIssued' = <<>>
          /\ calls' # calls =>
               /\ cycles' = cycles + 1
               /\ states' = states
               /\ ticks' # ticks => faults' = faults
      ]_vars

\* config.locations is no array, and the startup call and a timer tick have
\* each run a cycle
C16_Witness ==
    /\ NoLocations(cfg) /\ cfg.locationsKind # "list"
    /\ rpc = "done"
    /\ cycles >= 2 /\ ticks >= 1
    /\ ~isUpdating

\* a service that delivers the current section with the fields that have
\* companion points
CurrentFeed ==
    Feed(<<"temperature_2m", "relative_humidity_2m", "weather_code", "wind_direction_10m",
           "wind_gusts_10m">>, <<>>, <<>>, <<>>, 1)

\* the same service without the relative humidity
DryFeed == Feed(<<"temperature_2m", "wind_direction_10m">>, <<>>, <<>>, <<>>, 1)

\* the ways a field is delivered malformed: a string in place of a number,
\* or no value
BadFields ==
    { <<KV(k, v)>> : k \in {"temperature_2m", "relative_humidity_2m", "weather_code",
                            "wind_direction_10m", "wind_gusts_10m"},
                     v \in {Str("x"), Undef} }

\* The startup and the first sync cycle of the program over services that
\* deliver a field malformed or not at all.
MalformedWorlds ==
    { World(Config(locs, 1, 0, FALSE, FALSE), fd, OldTree) :
        locs \in {<<LocA>>, <<LocA, LocB>>},
        fd \in {CurrentFeed, DryFeed} \cup {Malformed(CurrentFeed, bad) : bad \in BadFields} }

InitMalformed == InitFrom(MalformedWorlds)

SpecMalformed == InitMalformed /\ [][FirstCycle]_vars

\* the last segment of an id
Field(id) == id[Len(id)]

\* the points derived from raw field k
Companions(k) ==
    CASE k = "weather_code" -> {"weather_text", "icon_url"}
      [] k = "wind_direction_10m" -> {"wind_direction_text", "wind_direction_icon"}
      [] k = "wind_gusts_10m" -> {"wind_gust_icon"}
      [] k \in {"temperature_2m", "relative_humidity_2m"} -> {"dew_point_2m"}
      [] OTHER -> {}

\* the fetch of cycle n for location l has answered with a weather section
HasWeather(n, l) ==
    \E i \in 1..Len(log) :
        /\ log[i].c = n /\ log[i].op = "snapshot"
        /\ log[i].id = <<FolderOf(l)>> /\ log[i].val.n # 0

\* C17 (as claimed): no definition and no value write is issued for a field
\* that the service delivers malformed, nor for a point derived from it; and
\* a cycle that has run to its end has written every well-formed field of
\* every location whose fetch has answered with a weather section.
C17_MalformedFieldSkipped ==
    /\ \A i \in 1..Len(log) : \A j \in 1..Len(feed.bad) :
         (log[i].op \in {"define", "write"} /\ log[i].c >= 1)
             => Field(log[i].id) \notin {feed.bad[j].k} \cup Companions(feed.bad[j].k)
    /\ \A n \in LoggedCycles : \A l \in 1..Len(cfg.locations) : \A k \in 1..Len(feed.current) :
         (Completed(n) /\ HasWeather(n, l) /\ ~IsBad(feed.bad, feed.current[k]))
             => Issued(n, "write", <<FolderOf(l), "weather", "current", feed.current[k]>>)

\* data.current of the service holds field k as a number
Numeric(k) == (\E i \in 1..Len(feed.current) : feed.current[i] = k) /\ ~IsBad(feed.bad, k)

DewPointId(l) == <<FolderOf(l), "weather", "current", "dew_point_2m">>

\* C18: the dew point of a location is defined and written in a sync cycle
\* exactly when the current temperature and the current relative humidity are
\* both delivered as numbers: with one of them missing or no number, no
\* definition and no write of dew_point_2m is ever issued; with both numbers,
\* every cycle that runs to its end writes it, as a number, for every location
\* whose fetch has answered with a weather section.
C18_DewPointIffNumeric ==
    /\ ~(Numeric("temperature_2m") /\ Numeric("relative_humidity_2m"))
         => \A i \in 1..Len(log) :
              (log[i].op \in {"define", "write"} /\ log[i].c >= 1)
                  => Field(log[i].id) # "dew_point_2m"
    /\ (Numeric("temperature_2m") /\ Numeric("relative_humidity_2m"))
         => \A n \in LoggedCycles : \A l \in 1..Len(cfg.locations) :
              (Completed(n) /\ HasWeather(n, l))
                  => \E i \in 1..Len(log) :
                       /\ log[i].c = n /\ log[i].op = "write"
                       /\ log[i].id = DewPointId(l) /\ log[i].val.t = "number"

\* the relative humidity is delivered malformed or not at all, and a cycle
\* has run to its end and written the temperature of a location whose fetch
\* answered with a weather section
C18_Witness ==
    /\ Numeric("temperature_2m") /\ ~Numeric("relative_humidity_2m")
    /\ \E n \in LoggedCycles :
         /\ Completed(n) /\ HasWeather(n, 1)
         /\ Issued(n, "write", <<FolderOf(1), "weather", "current", "temperature_2m">>)

(***************************************************************************)
(* The compass direction (main.ts:61-72) over the whole circle.           *)
(***************************************************************************)
MaxDegrees == 360

\* a service that delivers the current wind direction deg
WindFeed(deg) ==
    Delivering(Feed(<<"wind_direction_10m">>, <<>>, <<>>, <<>>, 1),
               "wind_direction_10m", Num(deg))

\* The startup and the first sync cycle of the program for every wind
\* direction of the circle, on a German and on an English system.
CompassWorlds ==
    { Speaking(World(Config(<<LocA>>, 1, 0, FALSE, FALSE), WindFeed(deg), OldTree), lang) :
        deg \in 0..MaxDegrees, lang \in {"de", "en"} }

InitCompass == InitFrom(CompassWorlds)

SpecCompass == InitCompass /\ [][FirstCycle]_vars

\* the wind direction the service delivers
Degrees == Lookup(feed.bad, "wind_direction_10m").n

\* round(d / 45) mod 8, with round as the nearest whole number and a half
\* rounded up: the q with 45 q - 22.5 <= d < 45 q + 22.5
CompassIndex(d) ==
    CHOOSE i \in 0..7 :
        \E q \in 0..9 : q % 8 = i /\ 90 * q - 45 <= 2 * d /\ 2 * d < 90 * q + 45

\* the 8-way rose in English
Rose == <<"N", "NE", "E", "SE", "S", "SW", "W", "NW">>

\* the values written to the direction text and the direction icon
WrittenTo(field) ==
    { log[i].val : i \in { j \in 1..Len(log) :
        log[j].op = "write" /\ log[j].id = <<FolderOf(1), "weather", "current", field>> } }

\* a cycle that has run to its end has written the direction text and icon
\* of a location whose fetch has answered with a weather section
DirectionEmitted ==
    \A n \in LoggedCycles :
        (Completed(n) /\ HasWeather(n, 1)) =>
            /\ Issued(n, "write", <<FolderOf(1), "weather", "current", "wind_direction_text">>)
            /\ Issued(n, "write", <<FolderOf(1), "weather", "current", "wind_direction_icon">>)

\* C19 (as claimed): for every wind direction of 0..360 degrees the written
\* direction text is the entry of the rose N, NE, E, SE, S, SW, W, NW at
\* index round(degrees / 45) mod 8, with 0 -> N, 44 -> N, 46 -> NE and
\* 360 -> N, and the written icon is the entry of the icon table at the same
\* index.
C19_CompassAsClaimed ==
    /\ DirectionEmitted
    /\ \A v \in WrittenTo("wind_direction_text") :
         /\ v = Str(Rose[CompassIndex(Degrees) + 1])
         /\ Degrees \in {0, 44, 360} => v = Str("N")
         /\ Degrees = 46 => v = Str("NE")
    /\ WrittenTo("wind_direction_icon")
         \subseteq {Str("wind_direction_icons/"
                        \o WIND_DIRECTION_FILES[CompassIndex(Degrees) + 1])}

\* C19 (amended): for every wind direction of 0..360 degrees the index
\* round(degrees / 45) mod 8 lies in 0..7 (0 for 0 and 360; 1 for 44 and for
\* 46), and the written direction text and icon are the entries at that one
\* index of the rose of the cached language (N, NE, E, ... in English; N, NO,
\* O, ... in German, the default) and of the icon table.
C19_CompassSameIndex ==
    /\ DirectionEmitted
    /\ WindIndex(Degrees) = CompassIndex(Degrees)
    /\ Degrees \in {0, 360} => CompassIndex(Degrees) = 0
    /\ Degrees \in {44, 46} => CompassIndex(Degrees) = 1
    /\ \A v \in WrittenTo("wind_direction_text") :
         /\ v = Str((IF cachedTranslations = "en" THEN Rose ELSE DefaultDirs)
                      [CompassIndex(Degrees) + 1])
         /\ Degrees \in {0, 360} => v = Str("N")
         /\ Degrees \in {44, 46} => v = Str(IF cachedTranslations = "en" THEN "NE" ELSE "NO")
    /\ WrittenTo("wind_direction_icon")
         \subseteq {Str("wind_direction_icons/"
                        \o WIND_DIRECTION_FILES[CompassIndex(Degrees) + 1])}

\* on an English system a wind direction of 44 degrees has been written, as
\* text and as icon, by a cycle that has run to its end
C19_Witness ==
    /\ Degrees = 44 /\ cachedTranslations = "en"
    /\ Completed(1) /\ HasWeather(1, 1)
    /\ WrittenTo("wind_direction_text") # {} /\ WrittenTo("wind_direction_icon") # {}
    /\ \A s \in Slots : cyc[s].pc = "idle"

(***************************************************************************)
(* The gust severity (main.ts:80-100) in metric units.                     *)
(***************************************************************************)
MaxGusts == 100

\* a service that delivers the current wind gusts g, in km/h
GustFeed(g) ==
    Delivering(Feed(<<"wind_gusts_10m">>, <<>>, <<>>, <<>>, 1), "wind_gusts_10m", Num(g))

\* The startup and the first sync cycle of the program for every whole gust
\* speed up to MaxGusts, with metric units.
GustWorlds ==
    { World(Config(<<LocA>>, 1, 0, FALSE, FALSE), GustFeed(g), OldTree) : g \in 0..MaxGusts }

InitGusts == InitFrom(GustWorlds)

SpecGusts == InitGusts /\ [][FirstCycle]_vars

\* the wind gusts the service delivers
Gusts == Lookup(feed.bad, "wind_gusts_10m").n

\* the thresholds of the bands, in km/h
GustThresholds == {39, 50, 62, 75, 89}

\* the band of speed g: the number of thresholds it has reached
GustBand(g) == Cardinality({t \in GustThresholds : t <= g})

\* the icons of the bands, lowest band first
GustIcons == <<"z.png", "0.png", "1.png", "2.png", "3.png", "4.png">>

\* the band whose icon the code selects for speed g
SelectedBand(g) ==
    CHOOSE b \in 0..5 : getWindGustIcon(g, FALSE) = "wind_icons/" \o GustIcons[b + 1]

\* C20: with metric units the icon written for a gust speed is the icon of
\* its band, where the six bands have the thresholds 39, 50, 62, 75 and 89
\* and a speed that equals a threshold lies in the upper band: below 39 is
\* band 0, 39 up to below 50 band 1, 50 band 2, 89 and above band 5; the
\* band never decreases as the speed grows; and the six icons are distinct.
\* A cycle that runs to its end writes the icon.
C20_GustBands ==
    /\ \A n \in LoggedCycles :
         (Completed(n) /\ HasWeather(n, 1)) =>
             Issued(n, "write", <<FolderOf(1), "weather", "current", "wind_gust_icon">>)
    /\ WrittenTo("wind_gust_icon") \subseteq {Str("wind_icons/" \o GustIcons[GustBand(Gusts) + 1])}
    /\ SelectedBand(Gusts) = GustBand(Gusts)
    /\ Gusts < 39 => SelectedBand(Gusts) = 0
    /\ (39 <= Gusts /\ Gusts < 50) => SelectedBand(Gusts) = 1
    /\ Gusts = 50 => SelectedBand(Gusts) = 2
    /\ Gusts >= 89 => SelectedBand(Gusts) = 5
    /\ \A g \in 0..Gusts : SelectedBand(g) <= SelectedBand(Gusts)
    /\ Cardinality({GustIcons[b] : b \in 1..6}) = 6

\* gusts of exactly 50 km/h have been written as icon by a cycle that has
\* run to its end
C20_Witness ==
    /\ Gusts = 50
    /\ Completed(1) /\ HasWeather(1, 1)
    /\ WrittenTo("wind_gust_icon") # {}
    /\ \A s \in Slots : cyc[s].pc = "idle"

(***************************************************************************)
(* The pollen severity (main.ts:613-624).                                  *)
(***************************************************************************)
MaxPollen == 50

\* a service that delivers the pollen concentration p of species key
PollenFeed(key, p) == Delivering(Feed(<<>>, <<>>, <<>>, <<key>>, 1), key, Num(p))

\* The startup and the first sync cycle of the program, with air quality
\* enabled, for the grass and birch pollen concentrations up to MaxPollen and
\* the birch thresholds above it.
PollenWorlds ==
    { World(Config(<<LocA>>, 1, 0, FALSE, TRUE), PollenFeed(key, p), OldTree) :
        key \in {"grass_pollen", "birch_pollen"}, p \in 0..MaxPollen \cup {100, 500} }

InitPollen == InitFrom(PollenWorlds)

SpecPollen == InitPollen /\ [][FirstCycle]_vars

\* the species and the concentration the service delivers
PollenKey == feed.air[1]

Pollen == Lookup(feed.bad, PollenKey).n

\* the thresholds of a species: [1, 10, 50], for birch [10, 100, 500]
PollenThresholds(key) ==
    IF \E a \in Affixes : "birch_" \o a = key \/ a \o "birch_pollen" = key
    THEN <<10, 100, 500>> ELSE <<1, 10, 50>>

\* the severity of value v under thresholds th
PollenSeverity(v, th) ==
    IF v >= th[3] THEN "high"
    ELSE IF v >= th[2] THEN "moderate"
    ELSE IF v >= th[1] THEN "low"
    ELSE "none"

\* the values written to the text point of the delivered species
PollenTexts ==
    { log[i].val : i \in { j \in 1..Len(log) :
        /\ log[j].op = "write"
        /\ log[j].id = <<FolderOf(1), "air", "current", PollenKey \o "_text">> } }

\* C21 (as claimed): every pollen text the synchronizer writes is the
\* severity of the concentration under the thresholds [1, 10, 50], for birch
\* [10, 100, 500]: at or above the third threshold high, at or above the
\* second moderate, at or above the first low, else none; so for grass
\* 0 -> none, 1 -> low, 9 -> low, 10 -> moderate, 50 -> high.
C21_PollenThresholdScheme ==
    \A v \in PollenTexts :
        /\ v = Str(PollenSeverity(Pollen, PollenThresholds(PollenKey)))
        /\ (PollenKey = "grass_pollen" /\ Pollen = 0) => v = Str("none")
        /\ (PollenKey = "grass_pollen" /\ Pollen \in {1, 9}) => v = Str("low")
        /\ (PollenKey = "grass_pollen" /\ Pollen = 10) => v = Str("moderate")
        /\ (PollenKey = "grass_pollen" /\ Pollen = 50) => v = Str("high")

(***************************************************************************)
(* The lunar phase bucket (main.ts:402-438).                               *)
(***************************************************************************)
MaxPhase == 99

\* The startup and the first sync cycle of the program with one forecast
\* day, for every lunar phase in hundredths.
MoonWorlds ==
    { World(Config(<<LocA>>, 1, 0, FALSE, FALSE),
            Moonlit(Feed(<<>>, <<"time">>, <<>>, <<>>, 1), p), OldTree) : p \in 0..MaxPhase }

InitMoon == InitFrom(MoonWorlds)

SpecMoon == InitMoon /\ [][FirstCycle]_vars

\* the eight buckets with their ranges [lo, hi) in hundredths; the new moon
\* has the two ends of the circle
PhaseBuckets ==
    { [key |-> "new_moon", lo |-> 0, hi |-> 3],
      [key |-> "waxing_crescent", lo |-> 3, hi |-> 22],
      [key |-> "first_quarter", lo |-> 22, hi |-> 28],
      [key |-> "waxing_gibbous", lo |-> 28, hi |-> 47],
      [key |-> "full_moon", lo |-> 47, hi |-> 53],
      [key |-> "waning_gibbous", lo |-> 53, hi |-> 72],
      [key |-> "last_quarter", lo |-> 72, hi |-> 78],
      [key |-> "waning_crescent", lo |-> 78, hi |-> 97],
      [key |-> "new_moon", lo |-> 97, hi |-> MaxPhase + 1] }

\* the buckets phase p falls into
BucketsOf(p) == {b \in PhaseBuckets : b.lo <= p /\ p < b.hi}

\* the values written to a lunar point of the first forecast day
MoonWritten(field) ==
    { log[i].val : i \in { j \in 1..Len(log) :
        /\ log[j].op = "write"
        /\ log[j].id = <<FolderOf(1), "weather", "forecast", "day0", field>> } }

\* C22: every lunar phase falls into exactly one of the eight buckets with
\* the boundaries 0, .03, .22, .28, .47, .53, .72, .78, .97 (lower bound
\* inclusive, upper exclusive, the last range wrapping to the new moon); the
\* phase text written is the key of that bucket (new moon for 0 and .02,
\* waxing crescent for .03, full moon for .50, new moon for .99) and the icon
\* written is the one icon the table holds for it; the eight buckets have
\* eight icons.  A cycle that runs to its end writes both.
C22_PhaseBuckets ==
    /\ Cardinality(BucketsOf(feed.phase)) = 1
    /\ \A b \in BucketsOf(feed.phase) :
         /\ MoonWritten("moon_phase_text") \subseteq {Str(b.key)}
         /\ b.key \in DOMAIN MOON_PHASE_ICONS
         /\ MoonWritten("moon_phase_icon")
              \subseteq {Str("moon_phases/" \o MOON_PHASE_ICONS[b.key])}
    /\ feed.phase \in {0, 2, 99} => MoonWritten("moon_phase_text") \subseteq {Str("new_moon")}
    /\ feed.phase = 3 => MoonWritten("moon_phase_text") \subseteq {Str("waxing_crescent")}
    /\ feed.phase = 50 => MoonWritten("moon_phase_text") \subseteq {Str("full_moon")}
    /\ DOMAIN MOON_PHASE_ICONS = {b.key : b \in PhaseBuckets}
    /\ Cardinality({MOON_PHASE_ICONS[k] : k \in DOMAIN MOON_PHASE_ICONS}) = 8
    /\ \A n \in LoggedCycles :
         (Completed(n) /\ HasWeather(n, 1)) =>
             /\ Issued(n, "write", <<FolderOf(1), "weather", "forecast", "day0",
                                     "moon_phase_text">>)
             /\ Issued(n, "write", <<FolderOf(1), "weather", "forecast", "day0",
                                     "moon_phase_icon">>)

\* a phase of .03, the lower bound of the waxing crescent, has been written
\* as text and as icon by a cycle that has run to its end
C22_Witness ==
    /\ feed.phase = 3
    /\ Completed(1) /\ HasWeather(1, 1)
    /\ MoonWritten("moon_phase_text") # {} /\ MoonWritten("moon_phase_icon") # {}
    /\ \A s \in Slots : cyc[s].pc = "idle"

(***************************************************************************)
(* Folder slugs of distinct locations (main.ts:166, main.ts:256).          *)
(***************************************************************************)
\* location names that differ in a character that is no letter or digit
LocNames == {<<"A">>, <<"A", "-", "B">>, <<"A", "_", "B">>}

\* The startup and the first sync cycle of the program for two locations
\* with distinct names, over a service that delivers the temperature.
SlugWorlds ==
    { World(Config(<<a, b>>, 1, 0, FALSE, FALSE),
            Feed(<<"temperature_2m">>, <<>>, <<>>, <<>>, MaxReading), OldTree) :
        a \in LocNames, b \in LocNames }
    \ { World(Config(<<a, a>>, 1, 0, FALSE, FALSE),
                Feed(<<"temperature_2m">>, <<>>, <<>>, <<>>, MaxReading), OldTree) :
          a \in LocNames }

InitSlugs == InitFrom(SlugWorlds)

SpecSlugs == InitSlugs /\ [][FirstCycle]_vars

\* the answers to the fetches of cycle n, in the order of the locations
Snapshots(n) == SelectSeq(log, LAMBDA c : c.c = n /\ c.op = "snapshot")

\* C23 (as claimed): two configured locations with distinct names have
\* distinct folder slugs, and when a cycle has run to its end the store holds
\* under each location's temperature id the value that was fetched for that
\* location: no location's value is overwritten by another location's sync.
C23_LocationsDisjoint ==
    \A l1 \in 1..Len(cfg.locations) : \A l2 \in 1..Len(cfg.locations) :
        (l1 # l2 /\ cfg.locations[l1] # cfg.locations[l2] /\ Completed(1)
         /\ Snapshots(1)[l1].val.n # 0) =>
            /\ FolderOf(l1) # FolderOf(l2)
            /\ states[CurrentId(FolderOf(l1))]
                 = FieldValue("temperature_2m", Snapshots(1)[l1].val.n)

(***************************************************************************)
(* The order of the calls of one cycle (main.ts:255-297).                  *)
(***************************************************************************)
\* The startup and the first sync cycle of the program for two locations
\* with every section enabled.
OrderWorlds ==
    { World(Config(<<LocA, LocB>>, 1, 1, TRUE, TRUE), FullFeed(1), tree) :
        tree \in {OldTree, <<>>} }

InitOrder == InitFrom(OrderWorlds)

SpecOrder == InitOrder /\ [][FirstCycle]_vars

\* the fetches among the first i calls of a sequence of calls
FetchesUpTo(c, i) == Cardinality({k \in 1..i : c[k].op = "fetch"})

\* a definition or value write of a data point of a location
IsPointCall(e) == e.op \in {"define", "write"} /\ e.id # LastUpdateId

\* the section of a data-point id: 1 weather, 2 hourly forecast, 3 air quality
SectionRank(id) ==
    IF id[2] = "air" THEN 3
    ELSE IF Len(id) > 3 /\ id[3] = "forecast" /\ id[4] = "hourly" THEN 2
    ELSE 1

\* C24: in the calls a cycle has issued, the k-th fetch is the fetch of the
\* k-th configured location; every definition and value write lies under
\* the folder of the location fetched last before it, so that the calls of
\* two locations never interleave; within a location the weather calls come
\* before the hourly calls and these before the air-quality calls; and a
\* cycle in flight awaits exactly the call it has issued last, so that a
\* fetch is issued only when every earlier call of the cycle has returned.
C24_SequentialLocations ==
    /\ \A n \in LoggedCycles :
         LET c == CallsOf(n)
         IN  \A i \in 1..Len(c) :
               /\ c[i].op = "fetch" => c[i].id = <<FolderOf(FetchesUpTo(c, i))>>
               /\ IsPointCall(c[i]) =>
                    /\ FetchesUpTo(c, i) >= 1
                    /\ c[i].id[1] = FolderOf(FetchesUpTo(c, i))
                    /\ \A j \in 1..(i - 1) :
                         (IsPointCall(c[j]) /\ FetchesUpTo(c, j) = FetchesUpTo(c, i))
                             => SectionRank(c[j].id) <= SectionRank(c[i].id)
               /\ (c[i].op = "write" /\ c[i].id = LastUpdateId) =>
                    /\ i = Len(c)
                    /\ FetchesUpTo(c, i) = Len(cfg.locations)
    /\ \A s \in InFlight :
         LET c == CallsOf(cyc[s].n)
         IN  Len(c) >= 1 /\ c[Len(c)] = PendingCall(cyc[s])

\* a cycle has run to its end over two locations and has written weather,
\* hourly and air-quality points of both
C24_Witness ==
    /\ Completed(1) /\ Len(cfg.locations) = 2
    /\ \A l \in 1..2 :
         /\ Issued(1, "write", <<FolderOf(l), "weather", "current", "temperature_2m">>)
         /\ Issued(1, "write", <<FolderOf(l), "air", "current", "pm10">>)
         /\ \E i \in 1..Len(log) :
              log[i].op = "write" /\ log[i].id[1] = FolderOf(l) /\ SectionRank(log[i].id) = 2

(***************************************************************************)
(* The object cache createdObjects (main.ts:637-656, main.ts:661-688).     *)
(***************************************************************************)

\* the definition call that slot s awaits throws in this step
DefineThrows(s) ==
    /\ cyc[s].pc = "call"
    /\ cyc[s].aw # <<>>
    /\ Head(cyc[s].aw) = "define"
    /\ faults' = faults + 1
    /\ cyc'[s] = IdleSlot

\* C25: an id enters the object cache only in the step in which its
\* metadata-definition call returns; a definition call that throws leaves
\* the cache as it is and issues no call in that step, so no value is
\* written for the id; a value write is issued through the cache only for
\* an id the cache holds, so a later write of the id needs a definition call
\* that has returned; the cache never loses an entry.
C25_CacheAfterDefinition ==
    [][ /\ createdObjects \subseteq createdObjects'
        /\ \A id \in createdObjects' \ createdObjects :
             /\ Count(defDone', id) = Count(defDone, id) + 1
             /\ \E s \in Slots : cyc[s].pc = "call" /\ cyc[s].aw # <<>>
                                 /\ Head(cyc[s].aw) = "define" /\ cyc[s].cur.id = id
        /\ \A s \in Slots : DefineThrows(s) =>
             /\ createdObjects' = createdObjects
             /\ log' = log
             /\ states' = states
        /\ \A i \in 1..Len(log') :
             (log'[i].op = "write" /\ log'[i].id # LastUpdateId)
                 => log'[i].id \in createdObjects'
        /\ \A id \in createdObjects' : Count(defDone', id) >= 1
      ]_vars

\* a definition call has thrown, the id has stayed out of the cache and
\* unwritten in that cycle, and a later cycle has issued the definition call
\* again, has cached the id and has written its value
C25_Witness ==
    \E id \in createdObjects :
        /\ Count(defIssued, id) = 2
        /\ Count(defDone, id) = 1
        /\ \E n \in LoggedCycles :
             /\ Issued(n, "define", id) /\ ~Issued(n, "write", id)
             /\ Issued(n + 1, "define", id) /\ Issued(n + 1, "write", id)

\* C26: every id the object cache holds has its object in the store; a step
\* that removes an object from the store (reconciliation) is taken only
\* while the cache is empty; a value write is issued through the cache only
\* for an id whose object the store holds.
C26_CachedObjectsExist ==
    [][ /\ \A id \in createdObjects' : FullId(id) \in objects'
        /\ ~(objects \subseteq objects') => (createdObjects = {} /\ createdObjects' = {})
        /\ \A i \in 1..Len(log') :
             (log'[i].op = "write" /\ log'[i].id # LastUpdateId)
                 => FullId(log'[i].id) \in objects'
      ]_vars

\* reconciliation has deleted an object, and a later cycle has written an
\* id without a definition call because the cache held it
C26_Witness ==
    /\ \E i \in 1..Len(allObjects) : allObjects[i] \notin objects
    /\ \E i \in 1..Len(log) :
         /\ log[i].op = "write"
         /\ log[i].c >= 2
         /\ log[i].id \in createdObjects
         /\ ~Issued(log[i].c, "define", log[i].id)

(***************************************************************************)
(* The timestamp marker info.lastUpdate (main.ts:137-147, main.ts:288-297).*)
(***************************************************************************)

\* the setState of the timestamp marker that slot s awaits returns in this
\* step
StampWritten(s) ==
    /\ cyc[s].pc = "stamp"
    /\ cyc'[s].pc = "idle"
    /\ faults' = faults

\* C27 (as claimed): whenever a sync cycle writes the value of the timestamp
\* marker, the store holds the marker's object, on every startup path.
C27_MarkerDefinedBeforeWrite ==
    [][ \A s \in Slots : StampWritten(s) => FullId(LastUpdateId) \in objects ]_vars

(***************************************************************************)
(* Unload (main.ts:691-698) against onReady (main.ts:152-158).             *)
(***************************************************************************)
\* The program with a host that calls the unload hook at any moment.
UnloadWorlds ==
    { World(Config(<<LocA>>, 1, 0, FALSE, FALSE), TemperatureFeed(1), OldTree) }

InitUnload == InitFrom(UnloadWorlds)

NextUnload == Next \/ Unload

SpecUnload == InitUnload /\ [][NextUnload]_vars

\* the timer fires in this step and its call of updateData starts a cycle
TimerStartsCycle == ticks' = ticks + 1 /\ cycles' = cycles + 1

\* C28 (as claimed): once the unload hook has run, the timer starts no sync
\* cycle, wherever in the startup the hook has run.
C28_NoCycleAfterUnload ==
    [][ unloaded => ~TimerStartsCycle ]_vars

====
